---- MODULE Spec2Model ----
(***************************************************************************)
(* Model of the jarvis skill engine: the scheduled-task bridge             *)
(* (CronBridge), the skill registry, the multi-detector and the two        *)
(* dispatch modes of SkillManager, and the message handler of TelegramBot. *)
(*                                                                         *)
(* Five families of specifications  share the variables of this module:    *)
(*   SpecCron / FairSpecCron  - CronBridge (timers, tasks, executeTask)    *)
(*   SpecDispatch             - registry, detectAllSkills, dispatch runs   *)
(*   SpecBot                  - TelegramBot.handlePrivateMessage flows     *)
(*   SpecRegistry             - the registry calls with their return values *)
(*   SpecSender               - sendMessage of the two IMessageSender      *)
(*                              implementations                            *)
(* Each specification leaves the variables of the other families unchanged.*)
(***************************************************************************)
EXTENDS Integers, Sequences, FiniteSets, TLC

(***************************************************************************)
(* Bounds                                                                  *)
(***************************************************************************)
\* number of scheduleTask calls explored
MaxTasks == 2
\* last instant of the simulated clock (Date.now()); delays are 1..MaxClock
MaxClock == 1

\* the values the Math.random() suffix of a task id is drawn from
RandomSuffixes == {"a", "b"}

\* longest annotation text, in tokens
MaxAnnLen == 3
\* number of enableSkill / disableSkill / registerSkill calls explored
MaxRegistryOps == 2

\* the (prompt, userId) pairs scheduleTask is called with
Requests == {<<"p1", "u1">>, <<"p2", "u2">>}

\* the prompts executePromptWithSkills is called with
Prompts == {"p1"}

\* number of Telegram updates the bot receives
MaxMessages == 2

\* number of sendMessage calls explored
MaxSends == 3

\* number of registry calls explored with their return values
MaxRegistryCalls == 3

\* longest text, in fragments, a detectSkill function is called on alone
MaxProbeLen == 3

\* number of CronSkill.execute calls explored
MaxCronExecs == 2

\* searches of the engine looked at
MaxSearches == 3

\* largest maxSites of the search configurations explored (the default
\* configuration has 10)
MaxSites == 2

\* largest number of results searchDuckDuckGo gives
MaxResults == 3

VARIABLES
    \* ---- CronBridge ----
    now,        \* Date.now()
    tasks,      \* CronBridge.tasks : Map<taskId, ScheduledTask>
    timers,     \* the setTimeout handles, in creation order
    calls,      \* executeTask invocations suspended at an await
    fireLog,    \* history: the runs of the firing logic (entry, how often)
    delivered,  \* history: invocations of onTaskComplete
    aiCalls,    \* history: collaborator calls made by executeTask
    cancelLog,  \* history: cancelTask calls that returned true
    refusedCancels, \* history: cancelTask calls that returned false
    \* ---- SkillManager ----
    skills,     \* SkillManager.skills : Map<name, SkillRegistration>
    regOps,     \* number of registry mutations made after construction
    reenabled,  \* history: the skills enabled again after they were disabled
    lastCall,   \* history: the last registry call whose caller looked at the
                \* return value, with the registry it was made on
    run,        \* the dispatch run in progress (one call of
                \* processSkillDetection or executePromptWithSkills)
    \* ---- TelegramBot ----
    flows,      \* one entry per received update, in arrival order: where
                \* its handlePrivateMessage invocation stands
    sent,       \* history: the ctx.reply calls, in the order they were made
    allowedUserId,  \* TelegramBot.allowedUserId, the characters of
                \* process.env.TELEGRAM_ALLOWED_USER_ID ("" when it is unset)
    \* ---- IMessageSender ----
    telegrafInstance,   \* CronMessageSender.telegrafInstance is set
    sends,      \* the sendMessage calls, in call order
    \* ---- SkillBase.detectSkill ----
    cronExecs,  \* the CronSkill.execute calls, in call order: the timer each
                \* armed and what it returned
    engine,     \* IterativeSearchEngine: this.browser, the browsers launched
                \* and the searches in flight
    web,        \* one performWebSearch call: where it stands, the state of
                \* its performIterativeSearch loop, how it settled
    probe       \* a detectSkill call made on a text of its own: the skill,
                \* the text and, once the call was made, what it returned

cronVars == <<now, tasks, timers, calls, fireLog, delivered, aiCalls, cancelLog,
             refusedCancels>>

dispatchVars == <<skills, regOps, reenabled, lastCall, run>>

botVars == <<flows, sent, allowedUserId>>

senderVars == <<telegrafInstance, sends>>

probeVars == <<probe>>

skillVars == <<cronExecs>>

searchVars == <<engine, web>>

vars == <<now, tasks, timers, calls, fireLog, delivered, aiCalls, cancelLog,
          refusedCancels,
          skills, regOps, reenabled, lastCall, run, flows, sent, allowedUserId,
          telegrafInstance, sends, probe, cronExecs, engine, web>>

(***************************************************************************)
(* CronBridge                                                              *)
(***************************************************************************)

\* the ids generateTaskId can return: `task_${Date.now()}_${random}`
TaskIds == (0..MaxClock) \X RandomSuffixes

Handles == 1..MaxTasks

\* Map.set
MapSet(m, k, v) == [x \in (DOMAIN m) \cup {k} |-> IF x = k THEN v ELSE m[x]]

\* Map.delete
MapDelete(m, k) == [x \in (DOMAIN m) \ {k} |-> m[x]]

EmptyMap == [x \in {} |-> 0]

\* generateTaskId: the ids it may return at the current instant
generateTaskId == {<<now, r>> : r \in RandomSuffixes}

\* time passes
Tick ==
    /\ now < MaxClock
    /\ now' = now + 1
    /\ UNCHANGED <<tasks, timers, calls, fireLog, delivered, aiCalls, cancelLog, refusedCancels, dispatchVars, botVars, senderVars, probeVars, skillVars, searchVars>>

\* scheduleTask(prompt, delaySeconds, userId): arms a one-shot timer and
\* stores the entry under the generated id (overwriting an entry of that id)
ScheduleTask(prompt, delaySeconds, userId) ==
    /\ Len(timers) < MaxTasks
    /\ now + delaySeconds <= MaxClock
    /\ \E taskId \in generateTaskId :
         LET h == Len(timers) + 1
             task == [id |-> taskId,
                      originalPrompt |-> prompt,
                      userId |-> userId,
                      scheduledAt |-> now,
                      executeAt |-> now + delaySeconds,
                      timeout |-> h,
                      executed |-> FALSE]
         IN /\ timers' = Append(timers, [taskId |-> taskId,
                                         at |-> now + delaySeconds,
                                         st |-> "armed"])
            /\ tasks' = MapSet(tasks, taskId, task)

\* cronBridge.scheduleTask called on its own
scheduleTask(prompt, delaySeconds, userId) ==
    /\ ScheduleTask(prompt, delaySeconds, userId)
    /\ UNCHANGED <<now, calls, fireLog, delivered, aiCalls, cancelLog, refusedCancels, dispatchVars, botVars, senderVars, probeVars, skillVars, searchVars>>

\* how many times the firing logic has run on the entry created by the
\* scheduleTask call that armed timer h
FireCount(h) == Cardinality({f \in fireLog : f.entry = h})

\* executeTaskGuard without the test of task.executed
executeTaskGuard_ignoresExecuted(taskId) ==
    taskId \in DOMAIN tasks

\* the guard at the top of executeTask: `if (!task || task.executed) return`
executeTaskGuard(taskId) ==
    /\ taskId \in DOMAIN tasks
    /\ ~tasks[taskId].executed

\* the synchronous head of executeTask(taskId), up to its first await:
\* guard, task.executed = true, then the call of sendMessageToAI(prompt)
executeTask(taskId) ==
    IF executeTaskGuard(taskId)
    THEN LET task == tasks[taskId]
         IN /\ tasks' = [tasks EXCEPT ![taskId].executed = TRUE]
            /\ fireLog' = fireLog \cup {[taskId |-> taskId,
                                          entry |-> task.timeout,
                                          userId |-> task.userId,
                                          n |-> FireCount(task.timeout) + 1]}
            /\ aiCalls' = aiCalls \cup {[fn |-> "sendMessageToAI",
                                         prompt |-> task.originalPrompt,
                                         entry |-> task.timeout]}
            /\ calls' = calls \cup {[taskId |-> taskId,
                                     entry |-> task.timeout,
                                     n |-> FireCount(task.timeout) + 1,
                                     originalPrompt |-> task.originalPrompt,
                                     userId |-> task.userId,
                                     pc |-> "awaitAI"]}
            /\ UNCHANGED delivered
    ELSE UNCHANGED <<tasks, fireLog, aiCalls, calls, delivered>>

\* the setTimeout callback of scheduleTask: one-shot, runs executeTask(taskId)
TimerFires(h) ==
    /\ h \in DOMAIN timers
    /\ timers[h].st = "armed"
    /\ now >= timers[h].at
    /\ timers' = [timers EXCEPT ![h].st = "fired"]
    /\ executeTask(timers[h].taskId)
    /\ UNCHANGED <<now, cancelLog, refusedCancels, dispatchVars, botVars, senderVars, probeVars, skillVars, searchVars>>

\* onTaskComplete(task.userId, response) is invoked
Deliver(c, kind) ==
    delivered \cup {[taskId |-> c.taskId,
                     entry |-> c.entry,
                     n |-> c.n,
                     userId |-> c.userId,
                     kind |-> kind,
                     prompt |-> c.originalPrompt]}

Resume(c, pc) == (calls \ {c}) \cup {[c EXCEPT !.pc = pc]}

\* executeTask: sendMessageToAI resolved; the answer goes to onTaskComplete
AiResolves(c) ==
    /\ c \in calls
    /\ c.pc = "awaitAI"
    /\ delivered' = Deliver(c, "answer")
    /\ calls' = Resume(c, "awaitSendAnswer")
    /\ UNCHANGED <<now, tasks, timers, fireLog, aiCalls, cancelLog, refusedCancels, dispatchVars, botVars, senderVars, probeVars, skillVars, searchVars>>

\* AiRejects with a catch block that sends nothing: finally deletes the entry
AiRejects_silent(c) ==
    /\ c \in calls
    /\ c.pc = "awaitAI"
    /\ tasks' = MapDelete(tasks, c.taskId)
    /\ calls' = calls \ {c}
    /\ UNCHANGED <<now, timers, fireLog, delivered, aiCalls, cancelLog, refusedCancels, dispatchVars, botVars, senderVars, probeVars, skillVars, searchVars>>

\* executeTask: sendMessageToAI rejected; the catch block sends the
\* fixed failure message
AiRejects(c) ==
    /\ c \in calls
    /\ c.pc = "awaitAI"
    /\ delivered' = Deliver(c, "failure")
    /\ calls' = Resume(c, "awaitSendFailure")
    /\ UNCHANGED <<now, tasks, timers, fireLog, aiCalls, cancelLog, refusedCancels, dispatchVars, botVars, senderVars, probeVars, skillVars, searchVars>>

\* executeTask: the awaited onTaskComplete resolved; finally deletes the entry
CallbackResolves(c) ==
    /\ c \in calls
    /\ c.pc \in {"awaitSendAnswer", "awaitSendFailure"}
    /\ tasks' = MapDelete(tasks, c.taskId)
    /\ calls' = calls \ {c}
    /\ UNCHANGED <<now, timers, fireLog, delivered, aiCalls, cancelLog, refusedCancels, dispatchVars, botVars, senderVars, probeVars, skillVars, searchVars>>

\* executeTask: the awaited onTaskComplete rejected. In the try block the
\* catch block sends the failure message; in the catch block the rejection
\* escapes and finally deletes the entry
CallbackRejects(c) ==
    /\ c \in calls
    /\ \/ /\ c.pc = "awaitSendAnswer"
          /\ delivered' = Deliver(c, "failure")
          /\ calls' = Resume(c, "awaitSendFailure")
          /\ UNCHANGED tasks
       \/ /\ c.pc = "awaitSendFailure"
          /\ tasks' = MapDelete(tasks, c.taskId)
          /\ calls' = calls \ {c}
          /\ UNCHANGED delivered
    /\ UNCHANGED <<now, timers, fireLog, aiCalls, cancelLog, refusedCancels, dispatchVars, botVars, senderVars, probeVars, skillVars, searchVars>>

\* clearTimeout(handle): disarms a pending timer, no effect on a fired one
clearTimeout(h) ==
    [timers EXCEPT ![h].st = IF @ = "armed" THEN "cleared" ELSE @]

\* cancelTask that clears the timer but leaves the entry in the registry
cancelTask_keepsEntry(taskId) ==
    /\ taskId \in DOMAIN tasks
    /\ timers' = clearTimeout(tasks[taskId].timeout)
    /\ cancelLog' = cancelLog \cup {[taskId |-> taskId,
                                     entry |-> tasks[taskId].timeout,
                                     ok |-> TRUE,
                                     executed |-> tasks[taskId].executed]}
    /\ UNCHANGED <<now, tasks, calls, fireLog, delivered, aiCalls, refusedCancels, dispatchVars, botVars, senderVars, probeVars, skillVars, searchVars>>

\* the timer armed last by a scheduleTask call that got the id taskId, 0
\* when no call got it
LastTimerOf(taskId) ==
    LET hs == {h \in DOMAIN timers : timers[h].taskId = taskId}
    IN IF hs = {} THEN 0 ELSE CHOOSE h \in hs : \A g \in hs : g <= h

\* the record of a cancelTask(taskId) call that returns false: the timer
\* armed last for the id and where that timer stood
Refusal(taskId) ==
    [taskId |-> taskId,
     entry |-> LastTimerOf(taskId),
     last |-> IF LastTimerOf(taskId) = 0 THEN "none"
              ELSE timers[LastTimerOf(taskId)].st]

\* cancelTask that returns true for an id it does not find
cancelTask_alwaysTrue(taskId) ==
    /\ IF taskId \notin DOMAIN tasks
       THEN /\ cancelLog' = cancelLog \cup {[taskId |-> taskId,
                                             entry |-> LastTimerOf(taskId),
                                             ok |-> TRUE,
                                             executed |-> TRUE]}
            /\ UNCHANGED <<tasks, timers, refusedCancels>>
       ELSE LET task == tasks[taskId]
            IN /\ timers' = clearTimeout(task.timeout)
               /\ tasks' = MapDelete(tasks, taskId)
               /\ cancelLog' = cancelLog \cup {[taskId |-> taskId,
                                                entry |-> task.timeout,
                                                ok |-> TRUE,
                                                executed |-> task.executed]}
               /\ UNCHANGED refusedCancels
    /\ UNCHANGED <<now, calls, fireLog, delivered, aiCalls, dispatchVars, botVars, senderVars, probeVars, skillVars, searchVars>>

\* cancelTask(taskId): returns false for an unknown id and changes nothing,
\* otherwise clears the timer of the entry, deletes the entry and returns
\* true; cancelLog keeps the calls that returned true, refusedCancels
\* those that returned false
cancelTask(taskId) ==
    /\ IF taskId \notin DOMAIN tasks
       THEN /\ refusedCancels' = refusedCancels \cup {Refusal(taskId)}
            /\ UNCHANGED <<tasks, timers, cancelLog>>
       ELSE LET task == tasks[taskId]
            IN /\ timers' = clearTimeout(task.timeout)
               /\ tasks' = MapDelete(tasks, taskId)
               /\ cancelLog' = cancelLog \cup {[taskId |-> taskId,
                                                entry |-> task.timeout,
                                                ok |-> TRUE,
                                                executed |-> task.executed]}
               /\ UNCHANGED refusedCancels
    /\ UNCHANGED <<now, calls, fireLog, delivered, aiCalls, dispatchVars, botVars, senderVars, probeVars, skillVars, searchVars>>

\* getAllTasks(): snapshot of the registry entries
getAllTasks == {tasks[id] : id \in DOMAIN tasks}

\* getUserTasks(userId)
getUserTasks(userId) == {t \in getAllTasks : t.userId = userId}

(***************************************************************************)
(* Annotation text                                                         *)
(*                                                                         *)
(* An annotation is the text returned by detectSkills. The skills read it  *)
(* with regular expressions that search the whole text, so the text is a   *)
(* sequence of the fragments those expressions can match.                  *)
(***************************************************************************)

NoSkillToken == [t |-> "no_skill", k |-> "[NO_SKILL]", v |-> "", n |-> <<>>]

\* the continuation marker that precedes a chained segment
Arrow == [t |-> "arrow", k |-> "->", v |-> "", n |-> <<>>]

\* "[SKILL: <k>]"
Tag(k) == [t |-> "tag", k |-> k, v |-> "", n |-> <<>>]

\* 'Key: "value"'
Field(k, v) == [t |-> "field", k |-> k, v |-> v, n |-> <<>>]

\* "Delai: <digits><suffix>": the decimal digits and the characters that
\* follow them
Delai(digits, suffix) ==
    [t |-> "field", k |-> "Delai", v |-> "", n |-> <<digits, suffix>>]

TagKeys == {"cron", "web_search", "system_info", "gmail", "calculator"}

Tokens ==
    {NoSkillToken, Arrow}
    \cup {Tag(k) : k \in TagKeys}
    \cup {Field("Prompt", "p1"), Field("Query", "q"), Field("Expression", "2 + 2")}
    \cup {Delai(<<5>>, <<"s">>), Delai(<<0>>, <<"s">>)}

\* "Numbers: [<item>, <item>, ...]"
Numbers(items) == [t |-> "field", k |-> "Numbers", v |-> "", n |-> <<items>>]

\* more fragments, for the texts the detectSkill functions are tried on
\* alone: other delays and suffixes, an empty value, Type fields
ProbeTokens ==
    {Delai(<<3, 0>>, <<"s">>), Delai(<<5>>, <<"m">>), Delai(<<2>>, <<"h">>),
     Delai(<<1, 2>>, <<"H">>), Delai(<<5>>, <<"x">>), Delai(<<5>>, <<"m", "s">>),
     Delai(<<5>>, <<>>), Delai(<<>>, <<"s">>),
     Field("Prompt", ""), Field("Type", "Time"), Field("Type", "bogus"),
     Field("Operation", "Add"), Field("Operation", "pow"),
     Numbers(<<"1", "2">>), Numbers(<<"1">>), Numbers(<<"x", "2">>),
     Numbers(<<>>)}

AllTokens == Tokens \cup ProbeTokens

\* the first chaining example of the detection prompt: a cron segment
\* followed by an arrow and a web_search segment
ChainedCronExample ==
    <<Tag("cron"), Field("Prompt", "p1"), Delai(<<5>>, <<"s">>),
      Arrow, Tag("web_search"), Field("Query", "q")>>

\* the annotation texts: every short text, and the chaining example
Annotations ==
    UNION {[1..len -> Tokens] : len \in 0..MaxAnnLen} \cup {ChainedCronExample}

\* the positions of the text where a fragment of the set S stands
Matches(text, S) == {i \in DOMAIN text : text[i] \in S}

\* String.match(regex): whether the regex matches somewhere in the text
Has(text, S) == Matches(text, S) # {}

\* String.match(regex)[..]: the first match
FirstMatch(text, S) ==
    text[CHOOSE i \in Matches(text, S) : \A j \in Matches(text, S) : i <= j]

\* String.toLowerCase on the characters and values the tokens use
ToLowerCase(c) ==
    CASE c = "S" -> "s" [] c = "M" -> "m" [] c = "H" -> "h" [] c = "X" -> "x"
      [] c = "Time" -> "time" [] c = "Add" -> "add"
      [] OTHER -> c

\* the regular expression of the field k matches the fragment tok:
\* /D[eé]lai:\s*(\d+)(s|m|h)/i wants a digit and then s, m or h, in either
\* case, and nothing of what follows; /Numbers:\s*\[([^\]]+)\]/i wants
\* something between the brackets; /Key:\s*"([^"]+)"/i a value that is not
\* empty
RegexMatches(k, tok) ==
    /\ tok.t = "field"
    /\ tok.k = k
    /\ IF k = "Delai"
       THEN /\ tok.n[1] # <<>>
            /\ tok.n[2] # <<>>
            /\ ToLowerCase(tok.n[2][1]) \in {"s", "m", "h"}
       ELSE IF k = "Numbers" THEN tok.n[1] # <<>>
       ELSE tok.v # ""

FieldTokens(k) == {tok \in AllTokens : RegexMatches(k, tok)}

RECURSIVE ParseIntFrom(_, _)
\* parseInt of a string of decimal digits, the digits read so far being
\* worth acc
ParseIntFrom(digits, acc) ==
    IF digits = <<>> THEN acc
    ELSE ParseIntFrom(Tail(digits), acc * 10 + Head(digits))

\* parseInt(delayMatch[1])
ParseInt(digits) == ParseIntFrom(digits, 0)

(***************************************************************************)
(* Skills                                                                  *)
(***************************************************************************)

\* SkillData: the string-keyed bag of parsed arguments; an absent key
\* reads as "" (0 for delaySeconds, no numbers)
NoData == [prompt |-> "", delaySeconds |-> 0, query |-> "", infoType |-> "",
           expression |-> "", operation |-> "", numbers |-> <<>>]

\* a JavaScript number: NaN, or the value
NaN == [nan |-> TRUE, val |-> 0]

Num(val) == [nan |-> FALSE, val |-> val]

\* parseFloat(n.trim()) of one item of the Numbers list
ParseFloat(item) ==
    CASE item = "1" -> Num(1)
      [] item = "2" -> Num(2)
      [] OTHER -> NaN

NotDetected == [isDetected |-> FALSE, data |-> NoData]

Detected(data) == [isDetected |-> TRUE, data |-> data]

\* the unit switch of CronSkill.detectSkill
DelaySeconds(delayValue, delayUnit) ==
    CASE delayUnit = "s" -> delayValue
      [] delayUnit = "m" -> delayValue * 60
      [] delayUnit = "h" -> delayValue * 60 * 60

\* CronSkill.detectSkill
CronDetectSkill(text) ==
    IF ~Has(text, {Tag("cron")}) THEN NotDetected
    ELSE IF ~Has(text, FieldTokens("Prompt")) \/ ~Has(text, FieldTokens("Delai"))
    THEN NotDetected
    ELSE LET promptMatch == FirstMatch(text, FieldTokens("Prompt"))
             delayMatch == FirstMatch(text, FieldTokens("Delai"))
             delayValue == ParseInt(delayMatch.n[1])
             delayUnit == ToLowerCase(delayMatch.n[2][1])
         IN IF delayUnit \notin {"s", "m", "h"} THEN NotDetected
            ELSE Detected([NoData EXCEPT
                              !.prompt = promptMatch.v,
                              !.delaySeconds = DelaySeconds(delayValue, delayUnit)])

\* WebSearchSkill.detectSkill
WebSearchDetectSkill(text) ==
    IF ~Has(text, {Tag("web_search")}) THEN NotDetected
    ELSE IF ~Has(text, FieldTokens("Query")) THEN NotDetected
    ELSE Detected([NoData EXCEPT !.query = FirstMatch(text, FieldTokens("Query")).v])

\* SystemInfoSkill.detectSkill that does not look for its tag
SystemInfoDetectSkill_noTagTest(text) ==
    Detected([NoData EXCEPT !.infoType = "all"])

\* SystemInfoSkill.detectSkill: the Type field is optional, and a type it
\* does not know reads as 'all'
SystemInfoDetectSkill(text) ==
    IF ~Has(text, {Tag("system_info")}) THEN NotDetected
    ELSE IF Has(text, FieldTokens("Type"))
    THEN LET requestedType == ToLowerCase(FirstMatch(text, FieldTokens("Type")).v)
         IN IF requestedType \in {"time", "date", "uptime", "memory", "all"}
            THEN Detected([NoData EXCEPT !.infoType = requestedType])
            ELSE Detected([NoData EXCEPT !.infoType = "all"])
    ELSE Detected([NoData EXCEPT !.infoType = "all"])

\* GoogleGmailSkill.detectSkill
GmailDetectSkill(text) ==
    IF ~Has(text, {Tag("gmail")}) THEN NotDetected
    ELSE IF Has(text, FieldTokens("Expression"))
    THEN Detected([NoData EXCEPT
                      !.expression = FirstMatch(text, FieldTokens("Expression")).v,
                      !.operation = "evaluate"])
    ELSE Detected(NoData)

\* CalculatorSkill.detectSkill: an Expression field, or else an Operation
\* field with a Numbers list, whose items parseFloat turns into numbers
CalculatorDetectSkill(text) ==
    IF ~Has(text, {Tag("calculator")}) THEN NotDetected
    ELSE IF Has(text, FieldTokens("Expression"))
    THEN Detected([NoData EXCEPT
                      !.expression = FirstMatch(text, FieldTokens("Expression")).v,
                      !.operation = "evaluate"])
    ELSE IF Has(text, FieldTokens("Operation")) /\ Has(text, FieldTokens("Numbers"))
    THEN LET operation == ToLowerCase(FirstMatch(text, FieldTokens("Operation")).v)
             items == FirstMatch(text, FieldTokens("Numbers")).n[1]
             numbers == [i \in DOMAIN items |-> ParseFloat(items[i])]
         IN IF operation \notin {"add", "subtract", "multiply", "divide"}
            THEN NotDetected
            ELSE Detected([NoData EXCEPT !.operation = operation,
                                         !.numbers = numbers,
                                         !.expression = "joined"])
    ELSE NotDetected

\* skill.detectSkill(skillDetection)
detectSkill(name, text) ==
    CASE name = "cron" -> CronDetectSkill(text)
      [] name = "web_search" -> WebSearchDetectSkill(text)
      [] name = "system_info" -> SystemInfoDetectSkill(text)
      [] name = "GMail" -> GmailDetectSkill(text)
      [] name = "calculator" -> CalculatorDetectSkill(text)

\* skill.validateData(data)
validateData(name, data) ==
    CASE name = "cron" -> data.prompt # "" /\ data.delaySeconds > 0
      [] name = "web_search" -> data.query # ""
      [] name = "system_info" ->
           data.infoType \in {"time", "date", "uptime", "memory", "all"}
      [] name \in {"GMail", "calculator"} ->
           IF data.operation = "" THEN FALSE
           ELSE IF data.operation = "evaluate" THEN data.expression # ""
           ELSE /\ Len(data.numbers) >= 2
                /\ \A i \in DOMAIN data.numbers : ~data.numbers[i].nan

\* SkillExecutionResult, and threw = TRUE for a rejected execute promise
Ok(message) == [success |-> TRUE, message |-> message, error |-> "", threw |-> FALSE]

Fail(error) == [success |-> FALSE, message |-> "", error |-> error, threw |-> FALSE]

Threw == [success |-> FALSE, message |-> "", error |-> "exception", threw |-> TRUE]

\* execute of the skills that validate their data and catch every failure:
\* the invalid-data result, a success with the skill's message, or the
\* failure result of the catch block
GuardedExecute(name, data, messages) ==
    IF ~validateData(name, data) THEN {Fail("invalid")}
    ELSE {Ok(m) : m \in messages} \cup {Fail("failed")}

\* skill.execute(data, userId, messageSender): the results it can settle with
execute(name, data) ==
    CASE name = "cron" -> GuardedExecute(name, data, {"text", ""})
      [] name = "web_search" -> GuardedExecute(name, data, {"text"})
      [] name = "system_info" -> GuardedExecute(name, data, {"text"})
      [] name = "calculator" -> GuardedExecute(name, data, {"text"})
      [] name = "GMail" -> {Ok("text"), Ok(""), Threw}

(***************************************************************************)
(* Skill registry                                                          *)
(***************************************************************************)

SkillNames == {"cron", "web_search", "system_info", "GMail", "calculator"}

\* registerDefaultSkills: the Map keeps its keys in insertion order
registerDefaultSkills ==
    << [name |-> "cron", skill |-> "v1", enabled |-> TRUE],
       [name |-> "web_search", skill |-> "v1", enabled |-> TRUE],
       [name |-> "system_info", skill |-> "v1", enabled |-> TRUE],
       [name |-> "GMail", skill |-> "v1", enabled |-> TRUE],
       [name |-> "calculator", skill |-> "v1", enabled |-> TRUE] >>

\* a SkillBase object: its name and which instance it is
SkillObject(name, id) == [name |-> name, id |-> id]

\* this.skills.has(name)
Registered(reg, name) == \E k \in DOMAIN reg : reg[k].name = name

\* SkillsSet on a list instead of a Map: the registration always goes last
SkillsSet_alwaysAppends(reg, name, skill, enabled) ==
    Append(reg, [name |-> name, skill |-> skill, enabled |-> enabled])

\* this.skills.set(name, {skill, enabled}): a new key goes last, an
\* existing key keeps its place
SkillsSet(reg, name, skill, enabled) ==
    IF Registered(reg, name)
    THEN [k \in DOMAIN reg |->
            IF reg[k].name = name
            THEN [name |-> name, skill |-> skill, enabled |-> enabled]
            ELSE reg[k]]
    ELSE Append(reg, [name |-> name, skill |-> skill, enabled |-> enabled])

\* registration.enabled = enabled on the registration this.skills.get(name)
\* returned
SetEnabled(reg, name, enabled) ==
    [k \in DOMAIN reg |->
        IF reg[k].name = name THEN [reg[k] EXCEPT !.enabled = enabled] ELSE reg[k]]

\* registerSkill(skill, enabled): the registry after the call and what the
\* call returns
RegisterSkill(reg, skill, enabled) ==
    [skills |-> SkillsSet(reg, skill.name, skill.id, enabled), ret |-> "void"]

\* DisableSkill that registers an unknown name, disabled
DisableSkill_addsUnknown(reg, name) ==
    [skills |-> SkillsSet(reg, name, "v1", FALSE), ret |-> "true"]

\* disableSkill(skillName)
DisableSkill(reg, name) ==
    IF Registered(reg, name)
    THEN [skills |-> SetEnabled(reg, name, FALSE), ret |-> "true"]
    ELSE [skills |-> reg, ret |-> "false"]

\* enableSkill(skillName)
EnableSkill(reg, name) ==
    IF Registered(reg, name)
    THEN [skills |-> SetEnabled(reg, name, TRUE), ret |-> "true"]
    ELSE [skills |-> reg, ret |-> "false"]

\* registration.enabled of the skill name, false when it is not registered
IsEnabled(reg, name) == \E k \in DOMAIN reg : reg[k].name = name /\ reg[k].enabled

\* the history of skills enabled again, after the registration of name
\* is given the flag enabled
Reenabled(name, enabled) ==
    IF Registered(skills, name) /\ ~IsEnabled(skills, name) /\ enabled
    THEN reenabled \cup {name}
    ELSE reenabled

\* registerSkill(skill, enabled)
registerSkill(skill, enabled) ==
    /\ regOps < MaxRegistryOps
    /\ regOps' = regOps + 1
    /\ skills' = RegisterSkill(skills, skill, enabled).skills
    /\ reenabled' = Reenabled(skill.name, enabled)
    /\ UNCHANGED <<lastCall, run, cronVars, botVars, senderVars, probeVars, skillVars, searchVars>>

\* disableSkill(skillName): false and no change for an unknown name
disableSkill(name) ==
    /\ regOps < MaxRegistryOps
    /\ regOps' = regOps + 1
    /\ skills' = DisableSkill(skills, name).skills
    /\ UNCHANGED <<lastCall, run, reenabled, cronVars, botVars, senderVars, probeVars, skillVars, searchVars>>

\* enableSkill(skillName): false and no change for an unknown name
enableSkill(name) ==
    /\ regOps < MaxRegistryOps
    /\ regOps' = regOps + 1
    /\ skills' = EnableSkill(skills, name).skills
    /\ reenabled' = Reenabled(name, TRUE)
    /\ UNCHANGED <<lastCall, run, cronVars, botVars, senderVars, probeVars, skillVars, searchVars>>

\* the skill instances registerSkill is called with
Instances == {"v1", "v2"}

\* the names the registry calls of SpecRegistry are made with: registered
\* skills, a skill registered later, a name never registered
CallNames == {"cron", "GMail", "calculator", "translator", "unknown"}

RegistrableNames == CallNames \ {"unknown"}

\* no registry call was observed yet
NoCall ==
    [op |-> "none", name |-> "", skill |-> "", enabled |-> FALSE,
     before |-> <<>>, ret |-> "void"]

\* a caller calls registerSkill(skill, enabled)
registerSkillCall(skill, enabled) ==
    /\ regOps < MaxRegistryCalls
    /\ regOps' = regOps + 1
    /\ skills' = RegisterSkill(skills, skill, enabled).skills
    /\ reenabled' = Reenabled(skill.name, enabled)
    /\ lastCall' = [op |-> "registerSkill", name |-> skill.name, skill |-> skill.id,
                    enabled |-> enabled, before |-> skills,
                    ret |-> RegisterSkill(skills, skill, enabled).ret]
    /\ UNCHANGED <<run, cronVars, botVars, senderVars, probeVars, skillVars, searchVars>>

\* a caller calls disableSkill(skillName) and keeps what it returns
disableSkillCall(name) ==
    /\ regOps < MaxRegistryCalls
    /\ regOps' = regOps + 1
    /\ skills' = DisableSkill(skills, name).skills
    /\ lastCall' = [op |-> "disableSkill", name |-> name, skill |-> "",
                    enabled |-> FALSE, before |-> skills,
                    ret |-> DisableSkill(skills, name).ret]
    /\ UNCHANGED <<run, reenabled, cronVars, botVars, senderVars, probeVars, skillVars, searchVars>>

\* a caller calls enableSkill(skillName) and keeps what it returns
enableSkillCall(name) ==
    /\ regOps < MaxRegistryCalls
    /\ regOps' = regOps + 1
    /\ skills' = EnableSkill(skills, name).skills
    /\ reenabled' = Reenabled(name, TRUE)
    /\ lastCall' = [op |-> "enableSkill", name |-> name, skill |-> "",
                    enabled |-> TRUE, before |-> skills,
                    ret |-> EnableSkill(skills, name).ret]
    /\ UNCHANGED <<run, cronVars, botVars, senderVars, probeVars, skillVars, searchVars>>

\* getSkills(onlyEnabled)
getSkills(onlyEnabled) ==
    LET keep(r) == ~onlyEnabled \/ r.enabled
        picked == SelectSeq(skills, keep)
    IN [k \in DOMAIN picked |-> picked[k].name]

\* what getSkill returns for no skill
Undefined == [found |-> FALSE, skill |-> SkillObject("", "")]

\* getSkill that does not look at the enabled flag
getSkill_ignoresEnabled(skillName) ==
    IF ~Registered(skills, skillName) THEN Undefined
    ELSE LET registration == skills[CHOOSE k \in DOMAIN skills :
                                        skills[k].name = skillName]
         IN [found |-> TRUE, skill |-> SkillObject(skillName, registration.skill)]

\* getSkill(skillName): registration?.enabled ? registration.skill : undefined
getSkill(skillName) ==
    IF ~Registered(skills, skillName) THEN Undefined
    ELSE LET registration == skills[CHOOSE k \in DOMAIN skills :
                                        skills[k].name = skillName]
         IN IF registration.enabled
            THEN [found |-> TRUE, skill |-> SkillObject(skillName, registration.skill)]
            ELSE Undefined

\* getSkillsInfo(): one info per registration, in registration order
getSkillsInfo ==
    [k \in DOMAIN skills |-> [name |-> skills[k].name, enabled |-> skills[k].enabled]]

(***************************************************************************)
(* Multi-detector                                                          *)
(***************************************************************************)

RECURSIVE DetectFrom_ignoresEnabled(_, _, _, _)
\* DetectFrom that tries the disabled registrations as well
DetectFrom_ignoresEnabled(reg, text, k, acc) ==
    IF k > Len(reg) THEN acc
    ELSE LET detection == detectSkill(reg[k].name, text)
         IN IF detection.isDetected
            THEN DetectFrom_ignoresEnabled(reg, text, k + 1,
                            Append(acc, [skillName |-> reg[k].name,
                                         data |-> detection.data]))
            ELSE DetectFrom_ignoresEnabled(reg, text, k + 1, acc)

RECURSIVE DetectFrom(_, _, _, _)
\* the forEach of detectAllSkills from registration k on, pushing onto acc
DetectFrom(reg, text, k, acc) ==
    IF k > Len(reg) THEN acc
    ELSE LET detection == detectSkill(reg[k].name, text)
         IN IF ~reg[k].enabled THEN DetectFrom(reg, text, k + 1, acc)
            ELSE IF detection.isDetected
            THEN DetectFrom(reg, text, k + 1,
                            Append(acc, [skillName |-> reg[k].name,
                                         data |-> detection.data]))
            ELSE DetectFrom(reg, text, k + 1, acc)

\* the tag key the detectSkill of a skill searches for (case-insensitive)
TagOf(name) == IF name = "GMail" THEN "gmail" ELSE name

\* where the segment of a detected skill starts in the text
TagPos(text, name) ==
    CHOOSE i \in Matches(text, {Tag(TagOf(name))}) :
        \A j \in Matches(text, {Tag(TagOf(name))}) : i <= j

\* detectAllSkills that returns the detected skills in the order of their
\* segments in the text
detectAllSkills_textOrder(reg, text) ==
    IF Has(text, {NoSkillToken}) THEN <<>>
    ELSE SortSeq(DetectFrom(reg, text, 1, <<>>),
                 LAMBDA a, b : TagPos(text, a.skillName) < TagPos(text, b.skillName))

\* detectAllSkills without the test of the [NO_SKILL] sentinel
detectAllSkills_noSentinel(reg, text) == DetectFrom(reg, text, 1, <<>>)

\* detectAllSkills(skillDetection) on the registry reg
detectAllSkills(reg, text) ==
    IF Has(text, {NoSkillToken}) THEN <<>>
    ELSE DetectFrom(reg, text, 1, <<>>)


(***************************************************************************)
(* Dispatcher                                                              *)
(***************************************************************************)

\* what a dispatch call has returned: nothing yet
NoReturn == [kind |-> "none"]

IdleRun ==
    [mode |-> "idle", pc |-> "idle", sender |-> TRUE, text |-> <<>>,
     prompt |-> "",
     registry |-> <<>>, detected |-> <<>>, i |-> 0, inflight |-> {},
     execLog |-> <<>>, execEnabled |-> <<>>, outcomes |-> <<>>, results |-> <<>>,
     combinedMessage |-> <<>>, allSuccessful |-> TRUE,
     allSkillsUsed |-> <<>>, accumulatedContext |-> <<>>,
     aiPrompt |-> "", aiLog |-> <<>>,
     ret |-> "none", rejectedBy |-> "", returned |-> NoReturn]

\* the collaborator calls of ai_bridge made by a run: detectSkills(prompt),
\* sendMessageToAI(prompt) and sendMessageToAI(finalPrompt), the final
\* prompt being built from the prompt and the accumulated context
AiCall(fn, kind, prompt, context) ==
    [fn |-> fn, kind |-> kind, prompt |-> prompt, context |-> context]

\* the text a collaborator call resolves with
Answer(call) == [answerTo |-> call]

\* the '\n\n' put between two messages of combinedMessage
BlankLine == [of |-> "", text |-> "\n\n"]

\* the SkillExecutionResult an execute call resolved with
Raw(out) == [success |-> out.success, message |-> out.message, error |-> out.error]

\* detected.map(s => s.skillName)
SkillNamesOf(detected) == [k \in DOMAIN detected |-> detected[k].skillName]

\* CallExecute that starts skill j and every skill after it without
\* awaiting the one before
CallExecute_noAwait(r, j) ==
    [r EXCEPT !.i = j,
              !.inflight = @ \cup (j..Len(r.detected)),
              !.execLog = @ \o SubSeq(SkillNamesOf(r.detected), j, Len(r.detected)),
              !.pc = "awaitExec"]

\* `await detected.skill.execute(detected.data, userId, messageSender)` for
\* the j-th detected skill: the call is made and the run is suspended on it;
\* execEnabled keeps whether the skill was enabled when the call was made
CallExecute(r, j) ==
    [r EXCEPT !.i = j,
              !.inflight = @ \cup {j},
              !.execLog = Append(@, r.detected[j].skillName),
              !.execEnabled = Append(@, IsEnabled(skills, r.detected[j].skillName)),
              !.pc = "awaitExec"]

\* RecordResult whose catch block leaves allSuccessful as it is
RecordResult_ignoresThrow(r, out) ==
    LET name == r.detected[r.i].skillName
    IN IF out.threw
       THEN [r EXCEPT !.results = Append(@, [skillName |-> name, success |-> FALSE,
                                             message |-> "", error |-> "crashed"])]
       ELSE [r EXCEPT !.results = Append(@, [skillName |-> name,
                                             success |-> out.success,
                                             message |-> out.message,
                                             error |-> out.error]),
                      !.combinedMessage =
                          IF out.success /\ out.message # ""
                          THEN (IF @ = <<>> THEN @ ELSE Append(@, BlankLine))
                                 \o <<[of |-> name, text |-> out.message]>>
                          ELSE @,
                      !.allSuccessful = IF out.success THEN @ ELSE FALSE]

\* RecordResult that puts the message of the skill in front of the
\* combined message
RecordResult_prepends(r, out) ==
    LET name == r.detected[r.i].skillName
    IN [r EXCEPT !.results = Append(@, [skillName |-> name,
                                        success |-> out.success /\ ~out.threw,
                                        message |-> out.message,
                                        error |-> out.error]),
                 !.combinedMessage =
                     IF out.success /\ out.message # ""
                     THEN <<[of |-> name, text |-> out.message]>>
                            \o (IF @ = <<>> THEN @ ELSE <<BlankLine>> \o @)
                     ELSE @,
                 !.allSuccessful = IF out.success THEN @ ELSE FALSE]

\* executeMultipleSkills, the body of one loop turn after execute settled
\* with out: the result entry, the combined message, allSuccessful
RecordResult(r, out) ==
    LET name == r.detected[r.i].skillName
    IN IF out.threw
       THEN [r EXCEPT !.results = Append(@, [skillName |-> name, success |-> FALSE,
                                             message |-> "", error |-> "crashed"]),
                      !.allSuccessful = FALSE]
       ELSE [r EXCEPT !.results = Append(@, [skillName |-> name,
                                             success |-> out.success,
                                             message |-> out.message,
                                             error |-> out.error]),
                      !.combinedMessage =
                          IF out.success /\ out.message # ""
                          THEN (IF @ = <<>> THEN @ ELSE Append(@, BlankLine))
                                 \o <<[of |-> name, text |-> out.message]>>
                          ELSE @,
                      !.allSuccessful = IF out.success THEN @ ELSE FALSE]

RECURSIVE NoSenderResults(_, _)
\* executeMultipleSkills with messageSender null: one error entry for each
\* detected skill from position k on, no execute call
NoSenderResults(r, k) ==
    IF k > Len(r.detected) THEN r
    ELSE NoSenderResults(
            [r EXCEPT !.results = Append(@, [skillName |-> r.detected[k].skillName,
                                             success |-> FALSE,
                                             message |-> "",
                                             error |-> "no_sender"]),
                      !.allSuccessful = FALSE],
            k + 1)

\* the composite result of processSkillDetection
Composite(r) ==
    [success |-> r.allSuccessful,
     message |-> r.combinedMessage,
     requiresResponse |-> TRUE,
     responseData |-> [multiSkill |-> TRUE,
                       skillNames |-> SkillNamesOf(r.detected),
                       results |-> r.results]]

\* FinishCombine that wraps a single result in a composite as well
FinishCombine_alwaysComposite(r) ==
    [r EXCEPT !.pc = "done",
              !.ret = "composite",
              !.returned = [kind |-> "result", value |-> Composite(r)]]

\* the return of processSkillDetection after executeMultipleSkills
FinishCombine(r) ==
    [r EXCEPT !.pc = "done",
              !.ret = IF Len(r.results) = 1 THEN "single" ELSE "composite",
              !.returned =
                  IF Len(r.results) = 1
                  THEN [kind |-> "result", value |-> r.results[1]]
                  ELSE [kind |-> "result", value |-> Composite(r)]]

\* processSkillDetection that executes the skills without a message sender
processSkillDetection_ignoresSender(text, sender) ==
    /\ run.pc = "idle"
    /\ LET detectedSkills == detectAllSkills(skills, text)
           r == [run EXCEPT !.mode = "combine", !.sender = sender, !.text = text,
                            !.registry = skills, !.detected = detectedSkills]
       IN run' = IF Len(detectedSkills) = 0
                 THEN [r EXCEPT !.pc = "done", !.ret = "null",
                                !.returned = [kind |-> "null"]]
                 ELSE CallExecute(r, 1)
    /\ UNCHANGED <<lastCall, skills, regOps, reenabled, cronVars, botVars, senderVars, probeVars, skillVars, searchVars>>

\* processSkillDetection(skillDetection, messageSender, userId), up to its
\* first await
processSkillDetection(text, sender) ==
    /\ run.pc = "idle"
    /\ LET detectedSkills == detectAllSkills(skills, text)
           r == [run EXCEPT !.mode = "combine", !.sender = sender, !.text = text,
                            !.registry = skills, !.detected = detectedSkills]
       IN run' = IF Len(detectedSkills) = 0
                 THEN [r EXCEPT !.pc = "done", !.ret = "null",
                                !.returned = [kind |-> "null"]]
                 ELSE IF ~sender
                 THEN FinishCombine(NoSenderResults(r, 1))
                 ELSE CallExecute(r, 1)
    /\ UNCHANGED <<lastCall, skills, regOps, reenabled, cronVars, botVars, senderVars, probeVars, skillVars, searchVars>>

\* the run with the settled call taken out of flight and its result kept
Settled(r, out) ==
    [r EXCEPT !.inflight = @ \ {r.i}, !.outcomes = Append(@, out)]

\* executeMultipleSkillsResume with no catch around execute: a rejected
\* execute rejects the run
executeMultipleSkillsResume_noCatch(out) ==
    /\ run.mode = "combine"
    /\ run.pc = "awaitExec"
    /\ out \in execute(run.detected[run.i].skillName, run.detected[run.i].data)
    /\ LET r == RecordResult(Settled(run, out), out)
       IN run' = IF out.threw
                 THEN [Settled(run, out) EXCEPT !.pc = "done", !.ret = "rejected",
                                                !.rejectedBy = "skill",
                                                !.returned = [kind |-> "rejected"]]
                 ELSE IF run.i < Len(run.detected)
                 THEN CallExecute(r, run.i + 1)
                 ELSE FinishCombine(r)
    /\ UNCHANGED <<lastCall, skills, regOps, reenabled, cronVars, botVars, senderVars, probeVars, skillVars, searchVars>>

\* executeMultipleSkills resumed when the awaited execute settles with out:
\* the rest of the loop turn, then the next skill or the return
executeMultipleSkillsResume(out) ==
    /\ run.mode = "combine"
    /\ run.pc = "awaitExec"
    /\ out \in execute(run.detected[run.i].skillName, run.detected[run.i].data)
    /\ LET r == RecordResult(Settled(run, out), out)
       IN run' = IF run.i < Len(run.detected)
                 THEN CallExecute(r, run.i + 1)
                 ELSE FinishCombine(r)
    /\ UNCHANGED <<lastCall, skills, regOps, reenabled, cronVars, botVars, senderVars, probeVars, skillVars, searchVars>>

\* executePromptWithSkills(prompt, userId), up to `await detectSkills(prompt)`
executePromptWithSkills(prompt) ==
    /\ run.pc = "idle"
    /\ run' = [run EXCEPT !.mode = "chain", !.pc = "awaitDetect",
                          !.prompt = prompt,
                          !.aiLog = Append(@, AiCall("detectSkills", "detect",
                                                     prompt, <<>>))]
    /\ UNCHANGED <<lastCall, skills, regOps, reenabled, cronVars, botVars, senderVars, probeVars, skillVars, searchVars>>

\* `allSkillsUsed.push(detected.skillName)` and the execute call of turn j
ChainTurn(r, j) ==
    CallExecute([r EXCEPT !.allSkillsUsed = Append(@, r.detected[j].skillName)], j)

\* DetectSkillsResolves that answers with the fixed acknowledgement, without
\* a conversational call, when no skill is detected
DetectSkillsResolves_noPlainCall(text) ==
    /\ run.mode = "chain"
    /\ run.pc = "awaitDetect"
    /\ LET detectedSkills == detectAllSkills(skills, text)
           r == [run EXCEPT !.text = text, !.registry = skills,
                            !.detected = detectedSkills]
       IN run' = IF Len(detectedSkills) = 0
                 THEN [r EXCEPT !.pc = "done", !.ret = "ack",
                                !.returned =
                                    [kind |-> "chain",
                                     value |-> [response |-> [answerTo |->
                                                    AiCall("none", "none", "", <<>>)],
                                                skillsUsed |-> <<>>]]]
                 ELSE ChainTurn(r, 1)
    /\ UNCHANGED <<lastCall, skills, regOps, reenabled, cronVars, botVars, senderVars, probeVars, skillVars, searchVars>>

\* executePromptWithSkills resumed with the annotation: detection, then the
\* plain conversational call or the first skill of the chain
DetectSkillsResolves(text) ==
    /\ run.mode = "chain"
    /\ run.pc = "awaitDetect"
    /\ LET detectedSkills == detectAllSkills(skills, text)
           r == [run EXCEPT !.text = text, !.registry = skills,
                            !.detected = detectedSkills]
       IN run' = IF Len(detectedSkills) = 0
                 THEN [r EXCEPT !.pc = "awaitAI", !.aiPrompt = "plain",
                                !.aiLog = Append(@, AiCall("sendMessageToAI", "plain",
                                                           r.prompt, <<>>))]
                 ELSE ChainTurn(r, 1)
    /\ UNCHANGED <<lastCall, skills, regOps, reenabled, cronVars, botVars, senderVars, probeVars, skillVars, searchVars>>

\* detectSkills rejected: executePromptWithSkills rejects
DetectSkillsRejects ==
    /\ run.mode = "chain"
    /\ run.pc = "awaitDetect"
    /\ run' = [run EXCEPT !.pc = "done", !.ret = "rejected",
                          !.rejectedBy = "detectSkills",
                          !.returned = [kind |-> "rejected"]]
    /\ UNCHANGED <<lastCall, skills, regOps, reenabled, cronVars, botVars, senderVars, probeVars, skillVars, searchVars>>

\* Accumulate that keeps the messages and drops the errors
Accumulate_dropsErrors(r, out) ==
    LET name == r.detected[r.i].skillName
    IN IF out.success /\ ~out.threw /\ out.message # ""
       THEN [r EXCEPT !.accumulatedContext =
               Append(@, [skillName |-> name, label |-> "", body |-> out.message])]
       ELSE r

\* executePromptWithSkills, the body of one loop turn after execute settled
\* with out: the labelled block appended to accumulatedContext
Accumulate(r, out) ==
    LET name == r.detected[r.i].skillName
    IN IF out.threw
       THEN [r EXCEPT !.accumulatedContext =
                Append(@, [skillName |-> name, label |-> "ERREUR", body |-> out.error])]
       ELSE IF out.success
       THEN IF out.message # ""
            THEN [r EXCEPT !.accumulatedContext =
                    Append(@, [skillName |-> name, label |-> "", body |-> out.message])]
            ELSE r
       ELSE [r EXCEPT !.accumulatedContext =
                Append(@, [skillName |-> name, label |-> "ERREUR", body |-> out.error])]

\* "La tâche a été exécutée.": a fixed text, the answer to no call
TaskExecuted == [answerTo |-> AiCall("none", "none", "", <<>>)]

\* executePromptWithSkillsResume that makes the final conversational call
\* whatever accumulatedContext holds
executePromptWithSkillsResume_alwaysSynthesises(out) ==
    /\ run.mode = "chain"
    /\ run.pc = "awaitExec"
    /\ out \in execute(run.detected[run.i].skillName, run.detected[run.i].data)
    /\ LET r == Accumulate(Settled(run, out), out)
       IN run' = IF run.i < Len(run.detected)
                 THEN ChainTurn(r, run.i + 1)
                 ELSE [r EXCEPT !.pc = "awaitAI", !.aiPrompt = "final",
                                !.aiLog = Append(@, AiCall("sendMessageToAI", "final",
                                                           r.prompt,
                                                           r.accumulatedContext))]
    /\ UNCHANGED <<lastCall, skills, regOps, reenabled, cronVars, botVars, senderVars, probeVars, skillVars, searchVars>>

\* executePromptWithSkills resumed when the awaited execute settles with
\* out: the rest of the loop turn, then the next skill, the fixed
\* acknowledgement or the final conversational call
executePromptWithSkillsResume(out) ==
    /\ run.mode = "chain"
    /\ run.pc = "awaitExec"
    /\ out \in execute(run.detected[run.i].skillName, run.detected[run.i].data)
    /\ LET r == Accumulate(Settled(run, out), out)
       IN run' = IF run.i < Len(run.detected)
                 THEN ChainTurn(r, run.i + 1)
                 ELSE IF r.accumulatedContext = <<>>
                 THEN [r EXCEPT !.pc = "done", !.ret = "ack",
                                !.returned =
                                    [kind |-> "chain",
                                     value |-> [response |-> TaskExecuted,
                                                skillsUsed |-> r.allSkillsUsed]]]
                 ELSE [r EXCEPT !.pc = "awaitAI", !.aiPrompt = "final",
                                !.aiLog = Append(@, AiCall("sendMessageToAI", "final",
                                                           r.prompt,
                                                           r.accumulatedContext))]
    /\ UNCHANGED <<lastCall, skills, regOps, reenabled, cronVars, botVars, senderVars, probeVars, skillVars, searchVars>>

\* the awaited sendMessageToAI of executePromptWithSkills resolved
SendMessageToAIResolves ==
    /\ run.mode = "chain"
    /\ run.pc = "awaitAI"
    /\ run' = [run EXCEPT !.pc = "done", !.ret = "response",
                          !.returned =
                              [kind |-> "chain",
                               value |-> [response |-> Answer(run.aiLog[Len(run.aiLog)]),
                                          skillsUsed |-> run.allSkillsUsed]]]
    /\ UNCHANGED <<lastCall, skills, regOps, reenabled, cronVars, botVars, senderVars, probeVars, skillVars, searchVars>>

\* the awaited sendMessageToAI of executePromptWithSkills rejected
SendMessageToAIRejects ==
    /\ run.mode = "chain"
    /\ run.pc = "awaitAI"
    /\ run' = [run EXCEPT !.pc = "done", !.ret = "rejected",
                          !.rejectedBy = "sendMessageToAI",
                          !.returned = [kind |-> "rejected"]]
    /\ UNCHANGED <<lastCall, skills, regOps, reenabled, cronVars, botVars, senderVars, probeVars, skillVars, searchVars>>

(***************************************************************************)
(* TelegramBot                                                             *)
(***************************************************************************)

\* the updates bot.on("message") is called with: who sent it, the type of
\* the chat, whether the message carries a text
\* the ctx.from.id of the updates
SenderIds == {42, 7}

\* the values of TELEGRAM_ALLOWED_USER_ID: unset, an id, an id followed by
\* other characters, no number
AllowedUserIdSettings == {<<>>, <<"4", "2">>, <<"4", "2", "a">>, <<"a">>}

Updates == [fromId : SenderIds, chatType : {"private", "group"}, hasText : BOOLEAN]

\* the values processSkillDetection resolves with: null or a
\* SkillExecutionResult with the responseData fields the handler reads
SkillResult(isNull, success, requiresResponse, message, error, name, names, multi) ==
    [isNull |-> isNull, success |-> success, requiresResponse |-> requiresResponse,
     message |-> message, error |-> error,
     responseData |-> [skillName |-> name, skillNames |-> names,
                       multiSkill |-> multi]]

SkillResults ==
    { SkillResult(TRUE, FALSE, FALSE, "", "", "", {}, FALSE),
      SkillResult(FALSE, TRUE, TRUE, "text", "", "cron", {}, FALSE),
      SkillResult(FALSE, TRUE, TRUE, "text", "", "web_search", {}, FALSE),
      SkillResult(FALSE, TRUE, TRUE, "text", "", "gmail", {}, FALSE),
      SkillResult(FALSE, TRUE, TRUE, "text", "", "calculator", {}, FALSE),
      SkillResult(FALSE, TRUE, TRUE, "text", "", "", {"cron", "system_info"}, TRUE),
      SkillResult(FALSE, TRUE, TRUE, "text", "", "", {"cron", "web_search"}, TRUE),
      SkillResult(FALSE, TRUE, TRUE, "", "", "cron", {}, FALSE),
      SkillResult(FALSE, TRUE, FALSE, "text", "", "cron", {}, FALSE),
      SkillResult(FALSE, FALSE, FALSE, "", "failed", "", {}, FALSE),
      SkillResult(FALSE, FALSE, FALSE, "", "", "", {}, FALSE),
      SkillResult(FALSE, FALSE, TRUE, "text", "", "", {"web_search", "system_info"}, TRUE) }

\* the if / else-if ladder of handlePrivateMessage on skillResult: which
\* reply the handler goes for
ReplyBranch(skillResult) ==
    IF skillResult.isNull THEN "plain"
    ELSE IF skillResult.success /\ skillResult.requiresResponse
            /\ skillResult.message # ""
    THEN LET rd == skillResult.responseData
             isCronSkill == rd.skillName = "cron" \/ "cron" \in rd.skillNames
         IN IF isCronSkill /\ ~rd.multiSkill THEN "cron"
            ELSE IF rd.skillName = "web_search" \/ "web_search" \in rd.skillNames
            THEN "web_search"
            ELSE IF rd.skillName = "gmail" THEN "gmail"
            ELSE "other"
    ELSE IF ~skillResult.success /\ skillResult.error # "" THEN "error"
    ELSE "silent"

\* the branches that ask the collaborator before they reply
AiBranches == {"plain", "gmail", "other"}

\* a handler suspended at an await
Awaiting == {"typing", "awaitDetect", "awaitDetectionReply", "awaitSkills",
             "awaitAI", "awaitReply"}

\* the handler of an update before it did anything: pc is where it stands,
\* branch the reply it goes for, dispatched whether processSkillDetection
\* was called, caught the call whose rejection reached the catch block
NewFlow == [pc |-> "ignored", branch |-> "", dispatched |-> FALSE, caught |-> "", fromId |-> 0, chatType |-> ""]

\* the call a suspended handler is waiting for
AwaitedCall(pc) ==
    CASE pc = "typing" -> "sendChatAction"
      [] pc = "awaitDetect" -> "detectSkills"
      [] pc = "awaitSkills" -> "processSkillDetection"
      [] pc = "awaitAI" -> "sendMessageToAI"
      [] pc \in {"awaitDetectionReply", "awaitReply"} -> "ctx.reply"

\* the handler of the update u before it did anything
Received(u) == [NewFlow EXCEPT !.fromId = u.fromId, !.chatType = u.chatType]

\* the value of a decimal digit character
DigitValue(c) ==
    CASE c = "0" -> 0 [] c = "1" -> 1 [] c = "2" -> 2 [] c = "3" -> 3
      [] c = "4" -> 4 [] c = "5" -> 5 [] c = "6" -> 6 [] c = "7" -> 7
      [] c = "8" -> 8 [] c = "9" -> 9

DigitChars == {"0", "1", "2", "3", "4", "5", "6", "7", "8", "9"}

RECURSIVE LeadingDigits(_)
\* the decimal digits a string starts with, as their values
LeadingDigits(chars) ==
    IF chars = <<>> \/ Head(chars) \notin DigitChars THEN <<>>
    ELSE <<DigitValue(Head(chars))>> \o LeadingDigits(Tail(chars))

\* parseInt(this.allowedUserId) that takes a string for a number only
\* when all of it is decimal digits
ParseAllowedUserId_strict(chars) ==
    IF LeadingDigits(chars) = <<>> \/ Len(LeadingDigits(chars)) # Len(chars) THEN NaN
    ELSE Num(ParseInt(LeadingDigits(chars)))

\* parseInt(this.allowedUserId): the number the leading digits of the
\* string write, whatever follows them, and NaN when it starts with none
ParseAllowedUserId(chars) ==
    IF LeadingDigits(chars) = <<>> THEN NaN
    ELSE Num(ParseInt(LeadingDigits(chars)))

\* the sender test written so that every sender passes when no allowed
\* user id is configured
FromAllowed_unsetAllowsAll(u) ==
    \/ ParseAllowedUserId(allowedUserId).nan
    \/ u.fromId = ParseAllowedUserId(allowedUserId).val

\* ctx.from.id !== parseInt(this.allowedUserId) is false: NaN differs
\* from every number
FromAllowed(u) ==
    /\ ~ParseAllowedUserId(allowedUserId).nan
    /\ u.fromId = ParseAllowedUserId(allowedUserId).val

\* ctx.reply(...) of the handler of update m
Reply(m, kind) == Append(sent, [msg |-> m, kind |-> kind])

\* bot.on("message") with handlePrivateMessage serialised: an update is
\* taken only when no earlier handler is suspended
handlePrivateMessage_serialised(u) ==
    /\ Len(flows) < MaxMessages
    /\ \A m \in DOMAIN flows : flows[m].pc \notin Awaiting
    /\ flows' = Append(flows,
                       IF FromAllowed(u) /\ u.chatType = "private" /\ u.hasText
                       THEN [Received(u) EXCEPT !.pc = "typing"]
                       ELSE Received(u))
    /\ UNCHANGED <<allowedUserId, sent, cronVars, dispatchVars, senderVars, probeVars, skillVars, searchVars>>

\* bot.on("message") and handlePrivateMessage up to ctx.sendChatAction:
\* the handler returns at once, the rest runs in the then-callback
handlePrivateMessage(u) ==
    /\ Len(flows) < MaxMessages
    /\ flows' = Append(flows,
                       IF FromAllowed(u) /\ u.chatType = "private" /\ u.hasText
                       THEN [Received(u) EXCEPT !.pc = "typing"]
                       ELSE Received(u))
    /\ UNCHANGED <<allowedUserId, sent, cronVars, dispatchVars, senderVars, probeVars, skillVars, searchVars>>

\* ctx.sendChatAction("typing") resolved: the callback starts and calls
\* detectSkills(text)
SendChatActionResolves(m) ==
    /\ m \in DOMAIN flows
    /\ flows[m].pc = "typing"
    /\ flows' = [flows EXCEPT ![m].pc = "awaitDetect"]
    /\ UNCHANGED <<allowedUserId, sent, cronVars, dispatchVars, senderVars, probeVars, skillVars, searchVars>>

\* ctx.sendChatAction("typing") rejected: the then-callback never runs
SendChatActionRejects(m) ==
    /\ m \in DOMAIN flows
    /\ flows[m].pc = "typing"
    /\ flows' = [flows EXCEPT ![m].pc = "dropped"]
    /\ UNCHANGED <<allowedUserId, sent, cronVars, dispatchVars, senderVars, probeVars, skillVars, searchVars>>

\* detectSkills(text) resolved: the annotation is echoed with ctx.reply
DetectionResolves(m) ==
    /\ m \in DOMAIN flows
    /\ flows[m].pc = "awaitDetect"
    /\ sent' = Reply(m, "detection")
    /\ flows' = [flows EXCEPT ![m].pc = "awaitDetectionReply"]
    /\ UNCHANGED <<allowedUserId, cronVars, dispatchVars, senderVars, probeVars, skillVars, searchVars>>

\* the echo was sent: processSkillDetection(skillDetection, this, userId)
DetectionReplyResolves(m) ==
    /\ m \in DOMAIN flows
    /\ flows[m].pc = "awaitDetectionReply"
    /\ flows' = [flows EXCEPT ![m].pc = "awaitSkills", ![m].dispatched = TRUE]
    /\ UNCHANGED <<allowedUserId, sent, cronVars, dispatchVars, senderVars, probeVars, skillVars, searchVars>>

\* processSkillDetection resolved with skillResult: a direct reply, a
\* collaborator call, or nothing
ProcessSkillDetectionResolves(m, skillResult) ==
    /\ m \in DOMAIN flows
    /\ flows[m].pc = "awaitSkills"
    /\ LET branch == ReplyBranch(skillResult)
       IN IF branch \in AiBranches
          THEN /\ flows' = [flows EXCEPT ![m].pc = "awaitAI", ![m].branch = branch]
               /\ sent' = sent
          ELSE IF branch = "silent"
          THEN /\ flows' = [flows EXCEPT ![m].pc = "done", ![m].branch = branch]
               /\ sent' = sent
          ELSE /\ flows' = [flows EXCEPT ![m].pc = "awaitReply", ![m].branch = branch]
               /\ sent' = Reply(m, branch)
    /\ UNCHANGED <<allowedUserId, cronVars, dispatchVars, senderVars, probeVars, skillVars, searchVars>>

\* sendMessageToAI resolved: the answer is sent with ctx.reply
AnswerResolves(m) ==
    /\ m \in DOMAIN flows
    /\ flows[m].pc = "awaitAI"
    /\ sent' = Reply(m, flows[m].branch)
    /\ flows' = [flows EXCEPT ![m].pc = "awaitReply"]
    /\ UNCHANGED <<allowedUserId, cronVars, dispatchVars, senderVars, probeVars, skillVars, searchVars>>

\* the awaited last ctx.reply resolved: the handler is over
ReplyResolves(m) ==
    /\ m \in DOMAIN flows
    /\ flows[m].pc = "awaitReply"
    /\ flows' = [flows EXCEPT ![m].pc = "done"]
    /\ UNCHANGED <<allowedUserId, sent, cronVars, dispatchVars, senderVars, probeVars, skillVars, searchVars>>

\* HandlerCatches with a catch block that only logs the error
HandlerCatches_onlyLogs(m) ==
    /\ m \in DOMAIN flows
    /\ flows[m].pc \in {"awaitDetect", "awaitDetectionReply", "awaitAI", "awaitReply"}
    /\ flows' = [flows EXCEPT ![m].pc = "done",
                              ![m].caught = AwaitedCall(flows[m].pc)]
    /\ UNCHANGED <<allowedUserId, sent, cronVars, dispatchVars, senderVars, probeVars, skillVars, searchVars>>

\* detectSkills, sendMessageToAI or an awaited ctx.reply rejected: the
\* catch block sends the apology, not awaited
HandlerCatches(m) ==
    /\ m \in DOMAIN flows
    /\ flows[m].pc \in {"awaitDetect", "awaitDetectionReply", "awaitAI", "awaitReply"}
    /\ sent' = Reply(m, "apology")
    /\ flows' = [flows EXCEPT ![m].pc = "done",
                              ![m].caught = AwaitedCall(flows[m].pc)]
    /\ UNCHANGED <<allowedUserId, cronVars, dispatchVars, senderVars, probeVars, skillVars, searchVars>>

(***************************************************************************)
(* IMessageSender: TelegramBot.sendMessage, CronMessageSender.sendMessage  *)
(***************************************************************************)

Senders == {"TelegramBot", "CronMessageSender"}

ParseModes == {"none", "MarkdownV2"}

\* one sendMessage call: transport is the state of its telegram.sendMessage
\* call, transportSends how often that was called, promise the state of the
\* promise sendMessage returned
SendCall(sender, parseMode, transport, transportSends, promise) ==
    [sender |-> sender,
     options |-> IF parseMode = "none" THEN {} ELSE {parseMode},
     transport |-> transport, transportSends |-> transportSends,
     promise |-> promise]

\* CronMessageSender.setTelegrafInstance
setTelegrafInstance ==
    /\ ~telegrafInstance
    /\ telegrafInstance' = TRUE
    /\ UNCHANGED <<sends, cronVars, dispatchVars, botVars, probeVars, skillVars, searchVars>>

\* sendMessage up to the await of telegram.sendMessage; the cron sender
\* returns at once when it has no Telegraf instance
sendMessage(sender, parseMode) ==
    /\ Len(sends) < MaxSends
    /\ sends' = Append(sends,
                       IF sender = "CronMessageSender" /\ ~telegrafInstance
                       THEN SendCall(sender, parseMode, "none", 0, "resolved")
                       ELSE SendCall(sender, parseMode, "pending", 1, "pending"))
    /\ UNCHANGED <<telegrafInstance, cronVars, dispatchVars, botVars, probeVars, skillVars, searchVars>>

\* the awaited telegram.sendMessage resolved: the success is logged
TransportResolves(k) ==
    /\ k \in DOMAIN sends
    /\ sends[k].transport = "pending"
    /\ sends' = [sends EXCEPT ![k].transport = "ok", ![k].promise = "resolved"]
    /\ UNCHANGED <<telegrafInstance, cronVars, dispatchVars, botVars, probeVars, skillVars, searchVars>>

\* TransportRejects with a catch block that throws the error again
TransportRejects_rethrows(k) ==
    /\ k \in DOMAIN sends
    /\ sends[k].transport = "pending"
    /\ sends' = [sends EXCEPT ![k].transport = "failed", ![k].promise = "rejected"]
    /\ UNCHANGED <<telegrafInstance, cronVars, dispatchVars, botVars, probeVars, skillVars, searchVars>>

\* the awaited telegram.sendMessage rejected: the catch block logs the error
TransportRejects(k) ==
    /\ k \in DOMAIN sends
    /\ sends[k].transport = "pending"
    /\ sends' = [sends EXCEPT ![k].transport = "failed", ![k].promise = "resolved"]
    /\ UNCHANGED <<telegrafInstance, cronVars, dispatchVars, botVars, probeVars, skillVars, searchVars>>

(***************************************************************************)
(* IterativeSearchEngine: the browser shared by the searches               *)
(***************************************************************************)

\* the two public methods that call initBrowser before they open a page
SearchMethods == {"searchDuckDuckGo", "performIterativeSearch"}

\* the engine after construction: this.browser is null (0), no browser was
\* launched, no search is in flight
NoBrowser == [browser |-> 0, launched |-> {}, searches |-> <<>>]

\* a search of the engine: the method called and where the call stands:
\* "launching" (suspended at await puppeteer.launch), "page" (initBrowser
\* returned, the call works on a page of this.browser), "done", "failed"
Search(method, pc) == [method |-> method, pc |-> pc]

\* searchDuckDuckGo(query) or performIterativeSearch(query, results) is
\* called and runs to its first suspension inside initBrowser: this.browser
\* is read; when it is null puppeteer.launch is called and the call is
\* suspended until that promise settles, otherwise initBrowser returns
initBrowser(method) ==
    /\ Len(engine.searches) < MaxSearches
    /\ engine' = [engine EXCEPT !.searches =
                      Append(@, Search(method, IF engine.browser = 0 THEN "launching" ELSE "page"))]
    /\ UNCHANGED <<cronVars, dispatchVars, botVars, senderVars, probeVars, skillVars, web>>

\* puppeteer.launch resolves for search k: a browser process exists from
\* now on, and the suspended assignment this.browser = <it> is made,
\* whatever this.browser holds by now
LaunchResolves(k) ==
    /\ k \in DOMAIN engine.searches
    /\ engine.searches[k].pc = "launching"
    /\ LET b == Cardinality(engine.launched) + 1
       IN engine' = [engine EXCEPT !.launched = @ \cup {b},
                                   !.browser = b,
                                   !.searches[k].pc = "page"]
    /\ UNCHANGED <<cronVars, dispatchVars, botVars, senderVars, probeVars, skillVars, web>>

\* puppeteer.launch rejects for search k: no browser, nothing assigned,
\* the rejection leaves the method through its finally block (page is null)
LaunchRejects(k) ==
    /\ k \in DOMAIN engine.searches
    /\ engine.searches[k].pc = "launching"
    /\ engine' = [engine EXCEPT !.searches[k].pc = "failed"]
    /\ UNCHANGED <<cronVars, dispatchVars, botVars, senderVars, probeVars, skillVars, web>>

\* the rest of search k: this.browser.newPage(), the work on the page, and
\* page.close() in the finally block. The browser itself is left open:
\* closeBrowser is called by the process-exit handlers only
SearchSettles(k) ==
    /\ k \in DOMAIN engine.searches
    /\ engine.searches[k].pc = "page"
    /\ engine' = [engine EXCEPT !.searches[k].pc = "done"]
    /\ UNCHANGED <<cronVars, dispatchVars, botVars, senderVars, probeVars, skillVars, web>>

(***************************************************************************)
(* WebSearchBridge.performWebSearch and the iterative search it runs       *)
(***************************************************************************)

\* confidenceLevels of isConfidenceSufficient
ConfidenceLevels == [none |-> 0, low |-> 1, medium |-> 2, high |-> 3]

\* contentAnalyzer.isConfidenceSufficient(analysis, minConfidence), read
\* with a strict comparison
IsConfidenceSufficient_strict(analysis, minConfidence) == ConfidenceLevels[analysis.confidence] > ConfidenceLevels[minConfidence]

\* contentAnalyzer.isConfidenceSufficient(analysis, minConfidence)
IsConfidenceSufficient(analysis, minConfidence) == ConfidenceLevels[analysis.confidence] >= ConfidenceLevels[minConfidence]

\* the extracted information an answer of the model can carry: none, a
\* short one, and one of more than 10 characters
InfoTexts ==
    {<<>>, <<"4", "2">>, <<"4", "2", " ", "k", "i", "l", "o", "m", "e", "t", "r", "e", "s">>}

\* what sendToAI(analysisPrompt) can settle with: a rejection, or an answer
\* described by what parseAnalysisResponse and validateExtractedData read in
\* it: TROUVE: OUI or not, the quoted data, and whether the numbers of the
\* quoted data occur in the page
AiFailure == [rejects |-> TRUE, found |-> FALSE, info |-> <<>>, valid |-> FALSE]

AiReplies ==
    {AiFailure} \cup
    {[rejects |-> FALSE, found |-> f, info |-> i, valid |-> v] : f \in BOOLEAN, i \in InfoTexts, v \in BOOLEAN}

\* a ContentAnalysis
Analysis(isRelevant, confidence, extractedInfo) == [isRelevant |-> isRelevant, confidence |-> confidence, extractedInfo |-> extractedInfo]

\* the analysis of the catch block of analyzeContent; it also stands for
\* "no analysis made" in the history of visited sites
ErrorAnalysis == Analysis(FALSE, "none", <<>>)

\* contentAnalyzer.parseAnalysisResponse: the confidence comes from the
\* quality of the extraction
parseAnalysisResponse(reply) ==
    Analysis(reply.found,
             IF reply.found /\ reply.info # <<>> /\ Len(reply.info) > 10 THEN "high"
             ELSE IF reply.found /\ reply.info # <<>> THEN "medium"
             ELSE IF reply.found THEN "low"
             ELSE "none",
             reply.info)

\* contentAnalyzer.analyzeContent: a rejection of sendToAI is caught and
\* gives the error analysis; quoted data that is not validated against the
\* page lowers the confidence to low
analyzeContent(reply) ==
    IF reply.rejects THEN ErrorAnalysis
    ELSE LET analysis == parseAnalysisResponse(reply)
         IN IF analysis.isRelevant /\ analysis.extractedInfo # <<>> /\ ~reply.valid
            THEN [analysis EXCEPT !.confidence = "low"]
            ELSE analysis

\* what pageScraper.extractPageContent can return (it catches every error):
\* success false, a content of less than 100 characters, a longer one
PageContents == {"failed", "short", "long"}

\* the SearchConfig values explored: maxSites and minConfidence of
\* this.config, fixed when the engine is constructed
SearchConfigs == [maxSites : 1..MaxSites, minConfidence : {"low", "medium", "high"}]

\* a WebSearchResponse: its query and the kind of text its summary holds
WebSearchResponse(query, summary) == [query |-> query, summary |-> summary]

NoResponse == WebSearchResponse("", "")

\* no performWebSearch call made yet
NoWebSearch ==
    [pc |-> "idle", config |-> [maxSites |-> 1, minConfidence |-> "medium"],
     searchResults |-> 0, visited |-> <<>>,
     sources |-> <<>>, collectedInfo |-> <<>>, partialInfo |-> <<>>,
     foundReliableAnswer |-> FALSE, sitesVisited |-> 0,
     result |-> [settled |-> "", sources |-> <<>>, sitesVisited |-> 0, foundReliableAnswer |-> FALSE],
     response |-> NoResponse]

\* searchResults.slice(0, this.config.maxSites): the results are the sites
\* 1..searchResults, in the order of the result page
sitesToVisit(w) == [i \in 1..(IF w.searchResults < w.config.maxSites THEN w.searchResults ELSE w.config.maxSites) |-> i]

\* webSearchBridge.performWebSearch(query) is called and runs to
\* await iterativeSearchEngine.searchDuckDuckGo(query)
performWebSearch(config) ==
    /\ web.pc = "idle"
    /\ web' = [web EXCEPT !.pc = "search", !.config = config]
    /\ UNCHANGED <<cronVars, dispatchVars, botVars, senderVars, probeVars, skillVars, engine>>

\* searchDuckDuckGo resolves with n results: with none the promise of
\* generateFallbackResponse(query) is returned, which runs to its
\* await sendMessageToAI; otherwise performIterativeSearch is called and runs
\* to the opening of its page (initBrowser, newPage, configurePageForScraping)
SearchResolves(n) ==
    /\ web.pc = "search"
    /\ web' = [web EXCEPT !.searchResults = n,
                          !.pc = IF n = 0 THEN "fallback" ELSE "openPage"]
    /\ UNCHANGED <<cronVars, dispatchVars, botVars, senderVars, probeVars, skillVars, engine>>

\* searchDuckDuckGo rejects: the catch block of performWebSearch calls
\* generateErrorResponse, which runs to its await sendMessageToAI
SearchRejects ==
    /\ web.pc = "search"
    /\ web' = [web EXCEPT !.pc = "errorResponse"]
    /\ UNCHANGED <<cronVars, dispatchVars, botVars, senderVars, probeVars, skillVars, engine>>

\* the page of performIterativeSearch is open: the loop begins
PageOpens ==
    /\ web.pc = "openPage"
    /\ web' = [web EXCEPT !.pc = "loop"]
    /\ UNCHANGED <<cronVars, dispatchVars, botVars, senderVars, probeVars, skillVars, engine>>

\* performIterativeSearch rejects: its catch block rethrows what the
\* browser or the page threw, and the catch block of performWebSearch
\* calls generateErrorResponse
IterativeRejects ==
    /\ web.pc = "openPage"
    /\ web' = [web EXCEPT !.pc = "errorResponse", !.result.settled = "rejected"]
    /\ UNCHANGED <<cronVars, dispatchVars, botVars, senderVars, probeVars, skillVars, engine>>

\* one turn of the loop `for (const result of sitesToVisit)`: the next site
\* is visited, its content extracted and, when there is enough of it,
\* analysed; a relevant analysis with extracted information of sufficient
\* confidence ends the loop at await generateFinalSynthesis
VisitSite(content, reply) ==
    /\ web.pc = "loop"
    /\ web.sitesVisited < Len(sitesToVisit(web))
    /\ LET site == sitesToVisit(web)[web.sitesVisited + 1]
           analysis == analyzeContent(reply)
           collects == analysis.isRelevant /\ analysis.extractedInfo # <<>>
           sufficient == collects /\ IsConfidenceSufficient(analysis, web.config.minConfidence)
       IN IF content # "long"
          THEN web' = [web EXCEPT !.sitesVisited = @ + 1,
                                  !.visited = Append(@, [site |-> site, content |-> content, analysis |-> ErrorAnalysis]),
                                  !.sources = Append(@, [site |-> site, wasUseful |-> FALSE])]
          ELSE web' = [web EXCEPT !.sitesVisited = @ + 1,
                                  !.visited = Append(@, [site |-> site, content |-> content, analysis |-> analysis]),
                                  !.sources = Append(@, [site |-> site, wasUseful |-> analysis.isRelevant]),
                                  !.collectedInfo = IF collects THEN Append(@, site) ELSE @,
                                  !.partialInfo = IF collects /\ ~sufficient THEN Append(@, site) ELSE @,
                                  !.foundReliableAnswer = IF sufficient THEN TRUE ELSE @,
                                  !.pc = IF sufficient THEN "finalSynthesis" ELSE @]
    /\ UNCHANGED <<cronVars, dispatchVars, botVars, senderVars, probeVars, skillVars, engine>>

\* the loop has gone through sitesToVisit without a reliable answer: with
\* collected information generateFinalSynthesis is awaited for a partial
\* answer, without any generateFailureMessage
LoopEnds ==
    /\ web.pc = "loop"
    /\ web.sitesVisited = Len(sitesToVisit(web))
    /\ web' = [web EXCEPT !.pc = IF Len(web.collectedInfo) > 0 THEN "partialSynthesis" ELSE "failureMessage"]
    /\ UNCHANGED <<cronVars, dispatchVars, botVars, senderVars, probeVars, skillVars, engine>>

\* the awaited sendToAI of the synthesis or of the failure message
\* resolves: performIterativeSearch returns its WebSearchResult, and
\* performWebSearch resolves with convertToWebSearchResponse(result)
SynthesisResolves ==
    /\ web.pc \in {"finalSynthesis", "partialSynthesis", "failureMessage"}
    /\ web' = [web EXCEPT !.pc = "resolved",
                          !.result = [settled |-> "returned",
                                      sources |-> web.sources,
                                      sitesVisited |-> web.sitesVisited,
                                      foundReliableAnswer |-> (web.pc = "finalSynthesis")],
                          !.response = WebSearchResponse("q", web.pc)]
    /\ UNCHANGED <<cronVars, dispatchVars, botVars, senderVars, probeVars, skillVars, engine>>

\* the awaited sendToAI rejects: performIterativeSearch rethrows, and the
\* catch block of performWebSearch calls generateErrorResponse
SynthesisRejects ==
    /\ web.pc \in {"finalSynthesis", "partialSynthesis", "failureMessage"}
    /\ web' = [web EXCEPT !.pc = "errorResponse", !.result.settled = "rejected"]
    /\ UNCHANGED <<cronVars, dispatchVars, botVars, senderVars, probeVars, skillVars, engine>>

\* sendMessageToAI of generateFallbackResponse resolves: the returned
\* promise resolves with the fallback response, and performWebSearch with it
FallbackResolves ==
    /\ web.pc = "fallback"
    /\ web' = [web EXCEPT !.pc = "resolved", !.response = WebSearchResponse("q", "fallback")]
    /\ UNCHANGED <<cronVars, dispatchVars, botVars, senderVars, probeVars, skillVars, engine>>

\* sendMessageToAI of generateFallbackResponse rejects. The function has no
\* try block, and performWebSearch left its own try block when it returned
\* the promise without awaiting it: the promise of performWebSearch rejects
FallbackRejects ==
    /\ web.pc = "fallback"
    /\ web' = [web EXCEPT !.pc = "rejected"]
    /\ UNCHANGED <<cronVars, dispatchVars, botVars, senderVars, probeVars, skillVars, engine>>

\* sendMessageToAI of generateErrorResponse resolves
ErrorResponseResolves ==
    /\ web.pc = "errorResponse"
    /\ web' = [web EXCEPT !.pc = "resolved", !.response = WebSearchResponse("q", "disturbed")]
    /\ UNCHANGED <<cronVars, dispatchVars, botVars, senderVars, probeVars, skillVars, engine>>

\* sendMessageToAI of generateErrorResponse rejects: its catch block returns
\* the fixed "service unavailable" response
ErrorResponseRejects ==
    /\ web.pc = "errorResponse"
    /\ web' = [web EXCEPT !.pc = "resolved", !.response = WebSearchResponse("q", "unavailable")]
    /\ UNCHANGED <<cronVars, dispatchVars, botVars, senderVars, probeVars, skillVars, engine>>

(***************************************************************************)
(* SkillBase.detectSkill, called on a text of its own                      *)
(***************************************************************************)

\* the texts the detectSkill functions are called on
ProbeTexts == UNION {[1..len -> AllTokens] : len \in 0..MaxProbeLen}

\* no call looked at
NoProbe == [skillName |-> "", text |-> <<>>, called |-> FALSE, result |-> NotDetected]

\* the call skill.detectSkill(text), about to be made
Pending(name, text) == [skillName |-> name, text |-> text, called |-> FALSE, result |-> NotDetected]

\* skill.detectSkill(skillDetection) returns. No detectSkill has a
\* statement that can throw: String.match, parseInt, toLowerCase,
\* Array.includes, split, map and parseFloat return on every string.
detectSkillCall ==
    /\ probe.skillName \in SkillNames
    /\ ~probe.called
    /\ probe' = [probe EXCEPT !.called = TRUE,
                              !.result = detectSkill(probe.skillName, probe.text)]
    /\ UNCHANGED <<cronVars, dispatchVars, botVars, senderVars, skillVars, searchVars>>

(***************************************************************************)
(* CronSkill.execute                                                       *)
(***************************************************************************)

\* the CronSkillData execute is called with: what detectSkill returns for
\* "Delai: 1s" and for "Delai: 0s"
CronDatas == {[NoData EXCEPT !.prompt = "p1", !.delaySeconds = d] : d \in {0, 1}}

\* CronSkill.execute(data, ...) up to its first await: invalid data returns
\* the failure result at once; otherwise the task is scheduled and the
\* call is suspended on sendMessageToAI(confirmationPrompt)
CronSkillExecute(data, userId) ==
    /\ Len(cronExecs) < MaxCronExecs
    /\ IF ~validateData("cron", data)
       THEN /\ cronExecs' = Append(cronExecs, [timer |-> 0, pc |-> "returned",
                                               success |-> FALSE, error |-> "invalid"])
            /\ UNCHANGED <<tasks, timers>>
       ELSE /\ ScheduleTask(data.prompt, data.delaySeconds, userId)
            /\ cronExecs' = Append(cronExecs, [timer |-> Len(timers) + 1,
                                               pc |-> "awaitConfirmation",
                                               success |-> FALSE, error |-> ""])
    /\ UNCHANGED <<now, calls, fireLog, delivered, aiCalls, cancelLog, refusedCancels, dispatchVars, botVars, senderVars, probeVars, searchVars>>

\* sendMessageToAI(confirmationPrompt) resolved: execute returns success
\* with the confirmation
ConfirmationResolves(k) ==
    /\ k \in DOMAIN cronExecs
    /\ cronExecs[k].pc = "awaitConfirmation"
    /\ cronExecs' = [cronExecs EXCEPT ![k].pc = "returned", ![k].success = TRUE]
    /\ UNCHANGED <<cronVars, dispatchVars, botVars, senderVars, probeVars, searchVars>>

\* sendMessageToAI(confirmationPrompt) rejected: the catch block returns
\* the failure result
ConfirmationRejects(k) ==
    /\ k \in DOMAIN cronExecs
    /\ cronExecs[k].pc = "awaitConfirmation"
    /\ cronExecs' = [cronExecs EXCEPT ![k].pc = "returned", ![k].error = "failed"]
    /\ UNCHANGED <<cronVars, dispatchVars, botVars, senderVars, probeVars, searchVars>>

(***************************************************************************)
(* Specifications                                                          *)
(***************************************************************************)

\* the state after construction, but for the detectSkill call looked at
Constructed ==
    /\ now = 0
    /\ tasks = EmptyMap
    /\ timers = <<>>
    /\ calls = {}
    /\ fireLog = {}
    /\ delivered = {}
    /\ aiCalls = {}
    /\ cancelLog = {}
    /\ refusedCancels = {}
    /\ skills = registerDefaultSkills
    /\ regOps = 0
    /\ reenabled = {}
    /\ lastCall = NoCall
    /\ run = IdleRun
    /\ flows = <<>>
    /\ sent = <<>>
    /\ telegrafInstance = FALSE
    /\ sends = <<>>
    /\ cronExecs = <<>>
    /\ engine = NoBrowser
    /\ web = NoWebSearch

InitCron ==
    /\ Constructed
    /\ probe = NoProbe
    /\ allowedUserId = <<"4", "2">>

NextCron ==
    \/ Tick
    \/ \E rq \in Requests, d \in 1..MaxClock : scheduleTask(rq[1], d, rq[2])
    \/ \E h \in Handles : TimerFires(h)
    \/ \E c \in calls : AiResolves(c)
    \/ \E c \in calls : AiRejects(c)
    \/ \E c \in calls : CallbackResolves(c)
    \/ \E c \in calls : CallbackRejects(c)
    \/ \E id \in TaskIds : cancelTask(id)

SpecCron == InitCron /\ [][NextCron]_vars

\* the collaborator calls and the callback of a fired task settle
Settle ==
    \E c \in calls :
        AiResolves(c) \/ AiRejects(c) \/ CallbackResolves(c) \/ CallbackRejects(c)

FairSpecCron == SpecCron /\ WF_vars(Settle)

\* what an execute call can settle with: a result, with or without a message,
\* a failure, or an exception
Outcomes == {Ok("text"), Ok(""), Fail("invalid"), Fail("failed"), Threw}

\* the state after construction of the SkillManager, no task scheduled
InitDispatch == InitCron

NextDispatch ==
    \/ \E name \in SkillNames, enabled \in BOOLEAN :
          registerSkill(SkillObject(name, "v1"), enabled)
    \/ \E name \in SkillNames \cup {"unknown"} : disableSkill(name)
    \/ \E name \in SkillNames \cup {"unknown"} : enableSkill(name)
    \/ /\ run.pc = "idle"
       /\ \E text \in Annotations, sender \in BOOLEAN :
             processSkillDetection(text, sender)
    \/ \E out \in Outcomes : executeMultipleSkillsResume(out)
    \/ \E prompt \in Prompts : executePromptWithSkills(prompt)
    \/ /\ run.pc = "awaitDetect"
       /\ \E text \in Annotations : DetectSkillsResolves(text)
    \/ DetectSkillsRejects
    \/ \E out \in Outcomes : executePromptWithSkillsResume(out)
    \/ SendMessageToAIResolves
    \/ SendMessageToAIRejects

SpecDispatch == InitDispatch /\ [][NextDispatch]_vars

\* the constructor reads TELEGRAM_ALLOWED_USER_ID
InitBot ==
    /\ Constructed
    /\ probe = NoProbe
    /\ allowedUserId \in AllowedUserIdSettings

NextBot ==
    \/ \E u \in Updates : handlePrivateMessage(u)
    \/ \E m \in 1..MaxMessages : SendChatActionResolves(m)
    \/ \E m \in 1..MaxMessages : SendChatActionRejects(m)
    \/ \E m \in 1..MaxMessages : DetectionResolves(m)
    \/ \E m \in 1..MaxMessages : DetectionReplyResolves(m)
    \/ \E m \in 1..MaxMessages, skillResult \in SkillResults :
          ProcessSkillDetectionResolves(m, skillResult)
    \/ \E m \in 1..MaxMessages : AnswerResolves(m)
    \/ \E m \in 1..MaxMessages : ReplyResolves(m)
    \/ \E m \in 1..MaxMessages : HandlerCatches(m)

SpecBot == InitBot /\ [][NextBot]_vars

InitRegistry == InitCron

NextRegistry ==
    \/ \E name \in RegistrableNames, id \in Instances, enabled \in BOOLEAN :
          registerSkillCall(SkillObject(name, id), enabled)
    \/ \E name \in CallNames : disableSkillCall(name)
    \/ \E name \in CallNames : enableSkillCall(name)

SpecRegistry == InitRegistry /\ [][NextRegistry]_vars

InitSender == InitCron

NextSender ==
    \/ setTelegrafInstance
    \/ \E sender \in Senders, parseMode \in ParseModes : sendMessage(sender, parseMode)
    \/ \E k \in 1..MaxSends : TransportResolves(k)
    \/ \E k \in 1..MaxSends : TransportRejects(k)

SpecSender == InitSender /\ [][NextSender]_vars

\* ---- CronSkill.execute and the tasks it schedules ----
InitCronSkill == InitCron

NextCronSkill ==
    \/ Tick
    \/ \E data \in CronDatas : CronSkillExecute(data, "u1")
    \/ \E k \in 1..MaxCronExecs : ConfirmationResolves(k)
    \/ \E k \in 1..MaxCronExecs : ConfirmationRejects(k)
    \/ \E h \in Handles : TimerFires(h)
    \/ \E c \in calls : AiResolves(c)
    \/ \E c \in calls : AiRejects(c)
    \/ \E c \in calls : CallbackResolves(c)
    \/ \E c \in calls : CallbackRejects(c)

SpecCronSkill == InitCronSkill /\ [][NextCronSkill]_vars

\* ---- concurrent searches on the one engine ----
InitBrowser == InitCron

NextBrowser ==
    \/ \E method \in SearchMethods : initBrowser(method)
    \/ \E k \in 1..MaxSearches : LaunchResolves(k)
    \/ \E k \in 1..MaxSearches : LaunchRejects(k)
    \/ \E k \in 1..MaxSearches : SearchSettles(k)

SpecBrowser == InitBrowser /\ [][NextBrowser]_vars

\* ---- one performWebSearch call ----
InitWebSearch == InitCron

NextWebSearch ==
    \/ \E config \in SearchConfigs : performWebSearch(config)
    \/ \E n \in 0..MaxResults : SearchResolves(n)
    \/ SearchRejects
    \/ PageOpens
    \/ IterativeRejects
    \/ \E content \in PageContents, reply \in AiReplies : VisitSite(content, reply)
    \/ LoopEnds
    \/ SynthesisResolves
    \/ SynthesisRejects
    \/ FallbackResolves
    \/ FallbackRejects
    \/ ErrorResponseResolves
    \/ ErrorResponseRejects

SpecWebSearch == InitWebSearch /\ [][NextWebSearch]_vars

\* ---- detectSkill of each skill, on texts of its own ----
InitDetect ==
    /\ Constructed
    /\ \E name \in SkillNames, text \in ProbeTexts : probe = Pending(name, text)
    /\ allowedUserId = <<"4", "2">>

NextDetect ==
    \/ detectSkillCall

SpecDetect == InitDetect /\ [][NextDetect]_vars

(***************************************************************************)
(* Properties of the scheduled-task bridge                                 *)
(***************************************************************************)

\* the entry created by the scheduleTask call of timer h is in the registry
InRegistry(h) == \E t \in getAllTasks : t.timeout = h

\* timers that ran executeTask for the same task id
DuplicateCallbacks ==
    \E h1, h2 \in DOMAIN timers :
        /\ h1 # h2
        /\ timers[h1].taskId = timers[h2].taskId
        /\ timers[h1].st = "fired"
        /\ timers[h2].st = "fired"

\* C1: a task fires at most once. The firing logic runs at most once on
\* every registry entry and at most once for every task id, also when
\* several timer callbacks run executeTask for the same id.
C1_FiresAtMostOnce ==
    /\ \A f \in fireLog : f.n = 1
    /\ \A f, g \in fireLog : f.taskId = g.taskId => f = g

\* C1 witness: two timer callbacks ran for one id while the first execution
\* was still in flight, and the firing logic ran once
C1_Witness ==
    /\ DuplicateCallbacks
    /\ \E c \in calls :
         /\ Cardinality({h \in DOMAIN timers :
                            timers[h].taskId = c.taskId /\ timers[h].st = "fired"}) = 2
         /\ Cardinality({f \in fireLog : f.taskId = c.taskId}) = 1

\* C2: firing and cancellation exclude each other. No cancelTask call
\* returns true for an entry that is already executed, and nothing is
\* delivered for an entry whose cancelTask returned true.
C2_CancelExcludesFiring ==
    \A e \in cancelLog :
        /\ ~e.executed
        /\ ~\E d \in delivered : d.entry = e.entry

\* C3: a task cancelled before it fired never fires, nothing is delivered
\* for it and getAllTasks() does not contain it.
C3_CancelledNeverFires ==
    \A e \in cancelLog :
        ~e.executed =>
            /\ ~\E f \in fireLog : f.entry = e.entry
            /\ ~\E d \in delivered : d.entry = e.entry
            /\ ~InRegistry(e.entry)

\* C3 witness: a task was cancelled before it fired and time has passed
\* its executeAt
C3_Witness ==
    \E e \in cancelLog :
        /\ ~e.executed
        /\ timers[e.entry].st = "cleared"
        /\ now >= timers[e.entry].at

\* onTaskComplete was invoked for the user of firing f
DeliveredFor(f) ==
    \E d \in delivered :
        /\ d.entry = f.entry
        /\ d.userId = f.userId
        /\ d.kind \in {"answer", "failure"}

\* C4: every fired task ends with a message and removal. Once the firing
\* logic has started on an entry, onTaskComplete is eventually invoked for
\* the entry's user, with the answer or the failure message, and the entry
\* is out of the registry.
C4_FiredEndsDeliveredAndRemoved ==
    \A h \in Handles :
        (FireCount(h) > 0) ~>
            (/\ \A f \in fireLog : f.entry = h => DeliveredFor(f)
             /\ FireCount(h) > 0
             /\ ~InRegistry(h)
             /\ ~\E c \in calls : c.entry = h)

\* C4 witness: the pipeline of a fired task rejected, the failure message
\* went to its user and the entry is gone
C4_Witness ==
    \E f \in fireLog :
        /\ \E d \in delivered :
             d.entry = f.entry /\ d.kind = "failure" /\ d.userId = f.userId
        /\ ~InRegistry(f.entry)
        /\ ~\E c \in calls : c.entry = f.entry

\* C5: a fired task runs the chained-dispatch pipeline. Every answer
\* delivered for a fired task comes from a run that generated a fresh
\* annotation (detectSkills) for the stored prompt.
C5_FiredTaskRunsPipeline ==
    \A d \in delivered :
        d.kind = "answer" =>
            \E a \in aiCalls :
                /\ a.fn = "detectSkills"
                /\ a.prompt = d.prompt
                /\ a.entry = d.entry

(***************************************************************************)
(* Properties of detection and dispatch                                    *)
(***************************************************************************)

\* the entries of a sequence that belong to the skill name
EntriesOf(seq, name) == {j \in DOMAIN seq : seq[j].skillName = name}

\* execute was called on the skill name in this run
Executed(name) == \E j \in DOMAIN run.execLog : run.execLog[j] = name

\* C6: a detected skill whose validateData is false on its parsed
\* arguments is never passed to execute, and the dispatcher's result for it
\* is a failure with the validation error.
C6_InvalidNeverExecuted ==
    \A k \in DOMAIN run.detected :
        LET d == run.detected[k]
        IN ~validateData(d.skillName, d.data) =>
             /\ ~Executed(d.skillName)
             /\ \A j \in EntriesOf(run.results, d.skillName) :
                  ~run.results[j].success /\ run.results[j].error = "invalid"
             /\ \A j \in EntriesOf(run.accumulatedContext, d.skillName) :
                  /\ run.accumulatedContext[j].label = "ERREUR"
                  /\ run.accumulatedContext[j].body = "invalid"
             /\ k \in DOMAIN run.outcomes => ~run.outcomes[k].success

\* the record of the failed skill at position k: one failed result entry
\* (combine mode), one ERREUR block (chained mode)
OneFailedEntry(k) ==
    LET name == run.detected[k].skillName
    IN IF run.mode = "combine"
       THEN /\ Cardinality(EntriesOf(run.results, name)) = 1
            /\ run.results[k].skillName = name
            /\ ~run.results[k].success
       ELSE /\ Cardinality(EntriesOf(run.accumulatedContext, name)) = 1
            /\ \A j \in EntriesOf(run.accumulatedContext, name) :
                 run.accumulatedContext[j].label = "ERREUR"

\* C7: a failing skill never aborts the run. In both modes, when a run
\* that executed skills is over, every detected skill was executed exactly
\* once, in order, every skill that returned a failure or threw is recorded
\* as exactly one failed entry, and no run rejects because of a skill.
C7_FailureNeverAborts ==
    /\ run.rejectedBy # "skill"
    /\ (run.pc = "done" /\ run.execLog # <<>>) =>
         /\ run.execLog = SkillNamesOf(run.detected)
         /\ Len(run.outcomes) = Len(run.detected)
         /\ \A k \in DOMAIN run.detected :
              ~run.outcomes[k].success => OneFailedEntry(k)
         /\ run.ret = "rejected" => run.rejectedBy = "sendMessageToAI"

\* C7 witness: a run is over in which a skill threw and the skill after it
\* was executed
C7_Witness ==
    /\ run.pc = "done"
    /\ run.ret \in {"composite", "response"}
    /\ \E k \in DOMAIN run.outcomes :
         /\ run.outcomes[k].threw
         /\ k < Len(run.outcomes)
         /\ Executed(run.detected[k + 1].skillName)

\* C8: the skills of a run execute one at a time. At most one execute is
\* in flight, and while skill j is in flight the j-1 skills before it have
\* settled and none after it has been started.
C8_OneSkillInFlight ==
    /\ Cardinality(run.inflight) <= 1
    /\ \A j \in run.inflight :
         /\ Len(run.outcomes) = j - 1
         /\ Len(run.execLog) = j

\* C8 witness: the second skill of a run is in flight
C8_Witness == run.inflight = {2}

\* C9: with continuation markers in the annotation, the detected list
\* follows the order of the skill segments in the text.
C9_DetectionFollowsAnnotationOrder ==
    Has(run.text, {Arrow}) =>
        \A i, j \in DOMAIN run.detected :
            i < j => TagPos(run.text, run.detected[i].skillName)
                       < TagPos(run.text, run.detected[j].skillName)

\* the place of a skill in the registry reg
RegIndex(reg, name) == CHOOSE k \in DOMAIN reg : reg[k].name = name

EnabledAtDetection(name) == IsEnabled(run.registry, name)

\* C11, as stated: only enabled skills are detected or executed. Every
\* detected skill is enabled in the registry at detection, and every skill
\* is enabled in the registry when its execute is called.
C11_OnlyEnabledExecuted ==
    /\ \A k \in DOMAIN run.detected : EnabledAtDetection(run.detected[k].skillName)
    /\ \A k \in DOMAIN run.execEnabled : run.execEnabled[k]

\* C11, amended: a skill is detected exactly when it is enabled in the
\* registry at the time of detection and matches the text (so a skill
\* enabled again after it was disabled is detected again), and only skills
\* enabled at the time of detection are executed. A skill disabled after
\* detection, while the run is in flight, is still executed.
C11_EnabledAtDetection ==
    run.registry # <<>> =>
        /\ \A x \in DOMAIN run.registry :
             LET name == run.registry[x].name
             IN (\E k \in DOMAIN run.detected : run.detected[k].skillName = name)
                  <=> /\ run.registry[x].enabled
                      /\ ~Has(run.text, {NoSkillToken})
                      /\ detectSkill(name, run.text).isDetected
        /\ \A k \in DOMAIN run.execLog : EnabledAtDetection(run.execLog[k])

\* C11 witness: a run is over that detected on a registry in which a skill
\* had been disabled and enabled again, and executed that skill
C11_Witness ==
    /\ run.pc = "done"
    /\ \E name \in reenabled : EnabledAtDetection(name) /\ Executed(name)

\* C12: an annotation that contains [NO_SKILL] detects nothing, whatever
\* skill tags it also contains, and no skill is executed.
C12_NoSkillDetectsNothing ==
    (run.registry # <<>> /\ Has(run.text, {NoSkillToken})) =>
        /\ run.detected = <<>>
        /\ run.execLog = <<>>
        /\ run.inflight = {}
        /\ (run.mode = "combine" /\ run.pc = "done") => run.returned = [kind |-> "null"]

\* C12 witness: a run detected on a text that holds [NO_SKILL] next to the
\* tag of an enabled skill that matches the text
C12_Witness ==
    /\ run.registry # <<>>
    /\ Has(run.text, {NoSkillToken})
    /\ \E name \in SkillNames :
         /\ IsEnabled(run.registry, name)
         /\ detectSkill(name, run.text).isDetected

\* a combine-mode run with exactly one detected skill has returned
SingleReturned ==
    /\ run.mode = "combine"
    /\ run.pc = "done"
    /\ Len(run.detected) = 1

\* C13, as stated: with exactly one detected skill, processSkillDetection
\* returns exactly what the execute of the skill produced, no field added,
\* removed or changed.
C13_SingleResultUnmodified ==
    (SingleReturned /\ run.sender /\ ~run.outcomes[1].threw) =>
        run.returned = [kind |-> "result", value |-> Raw(run.outcomes[1])]

\* C13, amended: with exactly one detected skill, processSkillDetection
\* returns no composite wrapper but the single entry of the result list:
\* the fields of the result of execute unchanged plus the field skillName,
\* or the error entry of the dispatcher when execute threw or when there
\* is no message sender.
C13_SingleResultEntry ==
    SingleReturned =>
        LET name == run.detected[1].skillName
            value == run.returned.value
        IN /\ run.returned.kind = "result"
           /\ DOMAIN value = {"skillName", "success", "message", "error"}
           /\ value.skillName = name
           /\ IF run.sender /\ ~run.outcomes[1].threw
              THEN /\ value.success = run.outcomes[1].success
                   /\ value.message = run.outcomes[1].message
                   /\ value.error = run.outcomes[1].error
              ELSE /\ ~value.success
                   /\ value.message = ""
                   /\ value.error \in {"crashed", "no_sender"}

\* C13 witness: a run with one detected skill returned the result of a
\* successful execute
C13_Witness ==
    /\ SingleReturned
    /\ run.sender
    /\ run.outcomes[1].success
    /\ run.outcomes[1].message # ""
    /\ run.returned.value.message = run.outcomes[1].message

\* a combine-mode run with two or more detected skills has returned
CompositeReturned ==
    /\ run.mode = "combine"
    /\ run.pc = "done"
    /\ Len(run.detected) >= 2

RECURSIVE JoinBlankLine(_)
\* the pieces of a sequence with a blank line between neighbours
JoinBlankLine(pieces) ==
    IF Len(pieces) <= 1 THEN pieces
    ELSE <<Head(pieces), BlankLine>> \o JoinBlankLine(Tail(pieces))

\* the messages of the result entries that carry one, in list order
MessagesOf(results) ==
    LET carries(e) == e.success /\ e.message # ""
        kept == SelectSeq(results, carries)
    IN [k \in DOMAIN kept |-> [of |-> kept[k].skillName, text |-> kept[k].message]]

\* C14: with two or more detected skills processSkillDetection returns a
\* composite: multiSkill is true, skillNames are the detected names in
\* detection order, the result list has one entry per detected skill in
\* the same order, and the message holds the messages of the skills in
\* detection order, a blank line between two of them.
C14_CompositeInDetectionOrder ==
    CompositeReturned =>
        LET value == run.returned.value
        IN /\ run.returned.kind = "result"
           /\ value.responseData.multiSkill = TRUE
           /\ value.responseData.skillNames = SkillNamesOf(run.detected)
           /\ Len(value.responseData.results) = Len(run.detected)
           /\ \A k \in DOMAIN run.detected :
                value.responseData.results[k].skillName = run.detected[k].skillName
           /\ value.message = JoinBlankLine(MessagesOf(value.responseData.results))

\* C14 witness: a composite was returned for skills A then B whose message
\* is A's message, a blank line, B's message
C14_Witness ==
    /\ CompositeReturned
    /\ run.sender
    /\ Len(run.returned.value.message) = 3
    /\ run.returned.value.message[1].of = run.detected[1].skillName
    /\ run.returned.value.message[2] = BlankLine
    /\ run.returned.value.message[3].of = run.detected[2].skillName

\* C15: in combine mode allSuccessful is the conjunction of the per-skill
\* outcomes. A result entry is a success exactly when its skill was
\* executed and returned success, allSuccessful is true exactly when every
\* entry is a success, and every message in the combined message is the
\* message of a successful skill.
C15_AllSuccessfulIsConjunction ==
    run.mode = "combine" =>
        /\ \A k \in DOMAIN run.results :
             run.results[k].success
               <=> (run.sender /\ run.outcomes[k].success /\ ~run.outcomes[k].threw)
        /\ run.allSuccessful <=> \A k \in DOMAIN run.results : run.results[k].success
        /\ \A p \in DOMAIN run.combinedMessage :
             run.combinedMessage[p] # BlankLine =>
                \E k \in DOMAIN run.results :
                    /\ run.results[k].skillName = run.combinedMessage[p].of
                    /\ run.results[k].message = run.combinedMessage[p].text
                    /\ run.results[k].success
        /\ (run.pc = "done" /\ Len(run.detected) >= 2) =>
             run.returned.value.success = run.allSuccessful

\* C15 witness: a composite was returned for a skill that succeeded with a
\* message and a skill that threw; allSuccessful is false and the message
\* holds the one message
C15_Witness ==
    /\ CompositeReturned
    /\ run.sender
    /\ ~run.allSuccessful
    /\ \E k \in DOMAIN run.outcomes : run.outcomes[k].threw
    /\ Len(run.combinedMessage) = 1

\* C16: in combine mode without a message sender no execute is called.
\* The run returns at once with one error entry per detected skill, in
\* detection order, and allSuccessful is false.
C16_NoSenderNoExecute ==
    (run.mode = "combine" /\ ~run.sender /\ run.detected # <<>>) =>
        /\ run.execLog = <<>>
        /\ run.inflight = {}
        /\ run.outcomes = <<>>
        /\ run.pc = "done"
        /\ Len(run.results) = Len(run.detected)
        /\ \A k \in DOMAIN run.detected :
             /\ run.results[k].skillName = run.detected[k].skillName
             /\ ~run.results[k].success
             /\ run.results[k].error = "no_sender"
        /\ ~run.allSuccessful
        /\ run.combinedMessage = <<>>

\* C16 witness: a run without a message sender detected two skills
C16_Witness ==
    /\ run.mode = "combine"
    /\ ~run.sender
    /\ Len(run.detected) >= 2
    /\ Len(run.results) = Len(run.detected)

\* the calls of the final synthesis made by the run
FinalCalls == {k \in DOMAIN run.aiLog : run.aiLog[k].kind = "final"}

\* the block a settled skill contributes to the final prompt, with the
\* given label on an error: none for a success without a message
BlockOf(name, out, errorLabel) ==
    IF out.success /\ ~out.threw
    THEN IF out.message # ""
         THEN <<[skillName |-> name, label |-> "", body |-> out.message]>>
         ELSE <<>>
    ELSE <<[skillName |-> name, label |-> errorLabel, body |-> out.error]>>

RECURSIVE BlocksUpTo(_, _)
\* the blocks of the first k settled skills, in detection order
BlocksUpTo(k, errorLabel) ==
    IF k = 0 THEN <<>>
    ELSE BlocksUpTo(k - 1, errorLabel)
           \o BlockOf(run.detected[k].skillName, run.outcomes[k], errorLabel)

\* the chained-mode synthesis, for a given label of the error blocks: the
\* buffer holds one block per settled skill that produced a message or an
\* error, in detection order and for no skill that has not run; the final
\* call is made at most once, after every skill settled, with the original
\* prompt and the buffer; skillsUsed lists the detected skills in order
ChainSynthesis(errorLabel) ==
    run.mode = "chain" =>
        /\ run.accumulatedContext = BlocksUpTo(Len(run.outcomes), errorLabel)
        /\ Cardinality(FinalCalls) <= 1
        /\ \A k \in FinalCalls :
             /\ Len(run.outcomes) = Len(run.detected)
             /\ run.inflight = {}
             /\ run.aiLog[k].fn = "sendMessageToAI"
             /\ run.aiLog[k].prompt = run.prompt
             /\ run.aiLog[k].context = BlocksUpTo(Len(run.detected), errorLabel)
        /\ (run.pc = "done" /\ run.ret = "response" /\ run.detected # <<>>) =>
             /\ Cardinality(FinalCalls) = 1
             /\ run.returned.value.response = Answer(run.aiLog[Len(run.aiLog)])
             /\ run.returned.value.skillsUsed = SkillNamesOf(run.detected)

\* C17, as stated: the chained-mode synthesis with error blocks of the form
\* '[<skillName>] ERROR: <error>'.
C17_ChainSynthesisErrorLabel == ChainSynthesis("ERROR")

\* C17, amended: the chained-mode synthesis with error blocks of the form
\* '[<skillName>] ERREUR: <error>'.
C17_ChainSynthesis == ChainSynthesis("ERREUR")

\* C17 witness: the final call was made for two detected skills with a
\* message block of the first and an error block of the second
C17_Witness ==
    /\ run.mode = "chain"
    /\ \E k \in FinalCalls :
         /\ Len(run.aiLog[k].context) = 2
         /\ run.aiLog[k].context[1].skillName = run.detected[1].skillName
         /\ run.aiLog[k].context[1].label = ""
         /\ run.aiLog[k].context[2].skillName = run.detected[2].skillName
         /\ run.aiLog[k].context[2].label = "ERREUR"

\* the conversational calls made by the run
ConversationalCalls == {k \in DOMAIN run.aiLog : run.aiLog[k].fn = "sendMessageToAI"}

\* a chained-mode run detected no skill on its annotation
ChainDetectedNothing ==
    /\ run.mode = "chain"
    /\ run.registry # <<>>
    /\ run.detected = <<>>

\* C18: in chained mode with no detected skill, no skill is executed,
\* exactly one conversational call is made, with the original prompt, and
\* the run returns its answer with an empty skillsUsed list.
C18_NoSkillPlainCall ==
    ChainDetectedNothing =>
        /\ run.execLog = <<>>
        /\ run.inflight = {}
        /\ Cardinality(ConversationalCalls) = 1
        /\ \A k \in ConversationalCalls :
             run.aiLog[k] = AiCall("sendMessageToAI", "plain", run.prompt, <<>>)
        /\ (run.pc = "done" /\ run.ret # "rejected") =>
             \E k \in ConversationalCalls :
                 run.returned = [kind |-> "chain",
                                 value |-> [response |-> Answer(run.aiLog[k]),
                                            skillsUsed |-> <<>>]]

\* C18 witness: a chained-mode run returned the answer of the plain call
\* for an annotation that is not empty
C18_Witness ==
    /\ ChainDetectedNothing
    /\ run.text # <<>>
    /\ run.pc = "done"
    /\ run.ret = "response"

\* the loop of a chained-mode run is over: every detected skill settled
ChainLoopOver ==
    /\ run.mode = "chain"
    /\ run.detected # <<>>
    /\ Len(run.outcomes) = Len(run.detected)

\* every skill of the run succeeded without a message, none failed or threw
AllQuiet ==
    \A k \in DOMAIN run.outcomes :
        /\ run.outcomes[k].success
        /\ ~run.outcomes[k].threw
        /\ run.outcomes[k].message = ""

\* C19: in chained mode, once all skills ran, a buffer left empty (every
\* skill succeeded without a message) gives the generic acknowledgement and
\* no conversational call at all; as soon as one skill failed, threw or
\* returned a message the buffer is not empty and the synthesis call is made.
C19_EmptyBufferAcknowledges ==
    ChainLoopOver =>
        IF AllQuiet
        THEN /\ run.accumulatedContext = <<>>
             /\ ConversationalCalls = {}
             /\ run.pc = "done"
             /\ run.ret = "ack"
             /\ run.returned = [kind |-> "chain",
                                value |-> [response |-> TaskExecuted,
                                           skillsUsed |-> run.allSkillsUsed]]
        ELSE /\ run.accumulatedContext # <<>>
             /\ Cardinality(FinalCalls) = 1
             /\ run.ret # "ack"
             /\ run.returned.kind = "chain" =>
                    run.returned.value.response # TaskExecuted

\* C19 witness: a chained-mode run whose skill succeeded without a message
\* returned the acknowledgement, the skill listed in skillsUsed
C19_Witness ==
    /\ ChainLoopOver
    /\ AllQuiet
    /\ run.execLog # <<>>
    /\ run.pc = "done"
    /\ run.ret = "ack"
    /\ run.returned.value.response = TaskExecuted
    /\ run.returned.value.skillsUsed # <<>>

\* the update m is a text message of the allowed user in a private chat
Handled(m) == m \in DOMAIN flows /\ flows[m].pc # "ignored"

\* the ctx.reply calls made for the update m
RepliesTo(m) == {k \in DOMAIN sent : sent[k].msg = m}

\* the step a suspended handler takes when what it awaits resolves
Resumes(m) ==
    \/ SendChatActionResolves(m)
    \/ DetectionResolves(m)
    \/ DetectionReplyResolves(m)
    \/ \E skillResult \in SkillResults : ProcessSkillDetectionResolves(m, skillResult)
    \/ AnswerResolves(m)
    \/ ReplyResolves(m)

\* C20: no mutual exclusion between in-flight messages. Whatever the
\* handlers of earlier messages are waiting for, the next message of the
\* same user is taken at once, and every suspended handler can resume
\* whatever the state of the others.
C20_NoMutualExclusion ==
    /\ Len(flows) < MaxMessages =>
         \A u \in Updates : ENABLED handlePrivateMessage(u)
    /\ \A m \in DOMAIN flows :
         flows[m].pc \in Awaiting => ENABLED Resumes(m)

\* C20 witness: two messages of the same user; the second has its
\* detection echo and its answer sent and its handler is over, while the
\* handler of the first is still suspended with no reply sent at all
C20_Witness ==
    /\ Len(flows) = 2
    /\ Handled(1) /\ Handled(2)
    /\ flows[1].pc \in Awaiting
    /\ RepliesTo(1) = {}
    /\ flows[2].pc = "done"
    /\ \E k \in RepliesTo(2) : sent[k].kind \in AiBranches \cup {"cron", "web_search"}
    /\ Cardinality(RepliesTo(2)) = 2

\* the last ctx.reply made for the update m is the apology, sent once
ApologySentLast(m) ==
    /\ RepliesTo(m) # {}
    /\ LET last == CHOOSE k \in RepliesTo(m) : \A j \in RepliesTo(m) : j <= k
       IN \A k \in RepliesTo(m) : sent[k].kind = "apology" <=> k = last

\* C21: on the interactive path a rejected collaborator call ends the
\* handler with the generic apology as its last reply. When detectSkills
\* rejected, processSkillDetection was never called (no skill executed) and
\* the apology is the only reply; when a later sendMessageToAI rejected the
\* apology is sent as well.
C21_RejectionSendsApology ==
    \A m \in DOMAIN flows :
        flows[m].caught \in {"detectSkills", "sendMessageToAI"} =>
            /\ flows[m].pc = "done"
            /\ ApologySentLast(m)
            /\ flows[m].caught = "detectSkills" =>
                 /\ ~flows[m].dispatched
                 /\ Cardinality(RepliesTo(m)) = 1
            /\ flows[m].caught = "sendMessageToAI" =>
                 /\ flows[m].dispatched
                 /\ flows[m].branch \in AiBranches

\* C21 witness: detectSkills rejected for the first message and the
\* conversational call of the second rejected after its skills ran; both
\* got the apology
C21_Witness ==
    /\ Len(flows) = 2
    /\ flows[1].caught = "detectSkills"
    /\ flows[2].caught = "sendMessageToAI"
    /\ flows[2].branch = "gmail"
    /\ ApologySentLast(1) /\ ApologySentLast(2)

\* C22: sendMessage of both implementations never rejects. Its promise is
\* resolved as soon as the transport send settled, succeeded or failed, or
\* at once when the cron sender has no instance; the transport send is
\* made at most once per call (a failed delivery is not retried).
C22_SendMessageAlwaysResolves ==
    \A k \in DOMAIN sends :
        /\ sends[k].promise # "rejected"
        /\ sends[k].transport \in {"ok", "failed", "none"} =>
             sends[k].promise = "resolved"
        /\ sends[k].transport = "pending" => sends[k].promise = "pending"
        /\ sends[k].transportSends <= 1
        /\ sends[k].transport = "none" =>
             /\ sends[k].sender = "CronMessageSender"
             /\ sends[k].transportSends = 0

\* C22 witness: the cron sender without instance, then a failed delivery
\* of each implementation; the three calls resolved
C22_Witness ==
    /\ Len(sends) = 3
    /\ sends[1].transport = "none"
    /\ \E j, k \in 2..3 :
         /\ sends[j].sender = "CronMessageSender"
         /\ sends[k].sender = "TelegramBot"
         /\ sends[j].transport = "failed"
         /\ sends[k].transport = "failed"
    /\ \A k \in 1..3 : sends[k].promise = "resolved"

\* the annotation has no skill tag and no [NO_SKILL] marker
NoTagNoMarker(text) ==
    /\ ~Has(text, {NoSkillToken})
    /\ \A k \in TagKeys : ~Has(text, {Tag(k)})

\* the run has gone through detectAllSkills (on the registry it recorded)
DetectionDone == run.mode \in {"combine", "chain"} /\ run.registry # <<>>

\* C23: an annotation with no skill tag and no [NO_SKILL] marker is
\* treated as an explicit [NO_SKILL]: detectAllSkills returns the empty
\* list, as it does for the marker alone; nothing is executed;
\* processSkillDetection returns null and executePromptWithSkills makes
\* the plain conversational call.
C23_NoTagIsNoSkill ==
    (DetectionDone /\ NoTagNoMarker(run.text)) =>
        /\ run.detected = <<>>
        /\ run.detected = detectAllSkills(run.registry, <<NoSkillToken>>)
        /\ run.execLog = <<>>
        /\ run.mode = "combine" =>
             /\ run.pc = "done"
             /\ run.returned = [kind |-> "null"]
        /\ run.mode = "chain" =>
             /\ \E k \in DOMAIN run.aiLog :
                  run.aiLog[k] = AiCall("sendMessageToAI", "plain", run.prompt, <<>>)
             /\ FinalCalls = {}
             /\ run.allSkillsUsed = <<>>

\* C23 witness: a chained-mode run on an annotation made of fields only,
\* no tag and no marker, returned the answer of the plain call
C23_Witness ==
    /\ run.mode = "chain"
    /\ run.pc = "done"
    /\ run.ret = "response"
    /\ Len(run.text) = MaxAnnLen
    /\ NoTagNoMarker(run.text)
    /\ \E i \in DOMAIN run.text : run.text[i].t = "field"

\* the registration of the registry reg under a name that is registered
RegistrationOf(reg, name) == reg[CHOOSE k \in DOMAIN reg : reg[k].name = name]

\* between the registries before and after, nothing changed but the
\* enabled flag of name: same names at the same places, same skills, same
\* flags everywhere else
OnlyFlagChanged(before, after, name, enabled) ==
    /\ Len(after) = Len(before)
    /\ \A k \in DOMAIN before :
         /\ after[k].name = before[k].name
         /\ after[k].skill = before[k].skill
         /\ after[k].enabled = IF before[k].name = name THEN enabled
                               ELSE before[k].enabled

\* C24: enableSkill and disableSkill of a name that is not registered
\* return false and leave the registry as it was; of a registered name
\* they return true and change that skill's enabled flag only, every other
\* registration and the registration order staying as they were.
C24_EnableDisableFrame ==
    lastCall.op \in {"enableSkill", "disableSkill"} =>
        IF Registered(lastCall.before, lastCall.name)
        THEN /\ lastCall.ret = "true"
             /\ OnlyFlagChanged(lastCall.before, skills, lastCall.name,
                                lastCall.op = "enableSkill")
        ELSE /\ lastCall.ret = "false"
             /\ skills = lastCall.before

\* C24 witness: disableSkill of a registered, enabled skill that is not the
\* last of a registry that already holds a disabled skill and a skill
\* registered later, returned true
C24_Witness ==
    /\ lastCall.op = "disableSkill"
    /\ lastCall.ret = "true"
    /\ lastCall.name = "GMail"
    /\ IsEnabled(lastCall.before, "GMail")
    /\ ~IsEnabled(skills, "GMail")
    /\ Len(skills) = 6
    /\ \E k \in DOMAIN skills : skills[k].name # "GMail" /\ ~skills[k].enabled

\* the registry holds one registration per name
OneEntryPerName(reg) ==
    \A j, k \in DOMAIN reg : reg[j].name = reg[k].name => j = k

\* registering skill with the flag enabled a second time changes nothing
RegisteringTwiceIsOnce(reg, skill, enabled) ==
    LET once == RegisterSkill(reg, skill, enabled).skills
    IN RegisterSkill(once, skill, enabled).skills = once

\* C25: registerSkill is idempotent by name. The registry holds exactly one
\* entry per name; a registration under a name already there overwrites
\* that entry, in place, with the new skill and flag; under a new name it
\* adds one entry at the end; registering the same skill with the same
\* flag twice leaves the registry as the first registration left it.
C25_RegisterIdempotentByName ==
    /\ OneEntryPerName(skills)
    /\ lastCall.op = "registerSkill" =>
         LET before == lastCall.before
             entry == [name |-> lastCall.name, skill |-> lastCall.skill,
                       enabled |-> lastCall.enabled]
         IN /\ Cardinality({k \in DOMAIN skills : skills[k].name = lastCall.name}) = 1
            /\ RegistrationOf(skills, lastCall.name) = entry
            /\ IF Registered(before, lastCall.name)
               THEN /\ Len(skills) = Len(before)
                    /\ \A k \in DOMAIN before :
                         skills[k] = IF before[k].name = lastCall.name
                                     THEN entry ELSE before[k]
               ELSE skills = Append(before, entry)
    /\ \A name \in RegistrableNames, id \in Instances, enabled \in BOOLEAN :
         RegisteringTwiceIsOnce(skills, SkillObject(name, id), enabled)

\* C25 witness: a skill registered under a name already there, with
\* another skill object and another flag than the entry had, after a skill
\* was added under a new name
C25_Witness ==
    /\ lastCall.op = "registerSkill"
    /\ lastCall.name = "cron"
    /\ Registered(lastCall.before, "cron")
    /\ Registered(lastCall.before, "translator")
    /\ RegistrationOf(lastCall.before, "cron").skill # lastCall.skill
    /\ RegistrationOf(lastCall.before, "cron").enabled # lastCall.enabled
    /\ skills[1].name = "cron"
    /\ skills[1].skill = lastCall.skill
    /\ Len(skills) = 6

\* the names registered and enabled
EnabledNames == {skills[k].name : k \in {j \in DOMAIN skills : skills[j].enabled}}

\* the elements of a sequence
Range(seq) == {seq[k] : k \in DOMAIN seq}

\* C26: the registry lookups agree with the enabled flags. getSkill(name)
\* returns the registered skill exactly when name is registered and
\* enabled; getSkills(true) is exactly the enabled skills and getSkills()
\* all of them; getSkillsInfo() lists every registered skill, enabled or
\* not, with its current flag.
C26_LookupsAgreeWithFlags ==
    /\ \A name \in CallNames \cup SkillNames :
         /\ getSkill(name).found <=> name \in EnabledNames
         /\ getSkill(name).found =>
              \E k \in DOMAIN skills :
                  /\ skills[k].name = name
                  /\ getSkill(name).skill = SkillObject(name, skills[k].skill)
    /\ Range(getSkills(TRUE)) = EnabledNames
    /\ Len(getSkills(TRUE)) = Cardinality(EnabledNames)
    /\ Range(getSkills(FALSE)) = {skills[k].name : k \in DOMAIN skills}
    /\ Len(getSkillsInfo) = Len(skills)
    /\ \A k \in DOMAIN skills :
         /\ getSkillsInfo[k].name = skills[k].name
         /\ getSkillsInfo[k].enabled = skills[k].enabled

\* C26 witness: a disabled skill, a skill registered later and disabled,
\* and a name never registered: getSkill returns nothing for the three,
\* getSkillsInfo lists the two registered ones with the flag false
C26_Witness ==
    /\ Registered(skills, "GMail") /\ ~IsEnabled(skills, "GMail")
    /\ Registered(skills, "translator") /\ ~IsEnabled(skills, "translator")
    /\ ~getSkill("GMail").found
    /\ ~getSkill("translator").found
    /\ ~getSkill("unknown").found
    /\ getSkill("cron").found
    /\ \E j, k \in DOMAIN getSkillsInfo :
         /\ getSkillsInfo[j] = [name |-> "GMail", enabled |-> FALSE]
         /\ getSkillsInfo[k] = [name |-> "translator", enabled |-> FALSE]
    /\ Len(getSkills(TRUE)) = 4

\* a step in which a cancelTask call returned false: the id was not in the
\* registry and nothing but the history of refusals changed
RefusedCancelStep ==
    /\ \A r \in refusedCancels' \ refusedCancels : r.taskId \notin DOMAIN tasks
    /\ UNCHANGED <<now, tasks, timers, calls, fireLog, delivered, aiCalls, cancelLog>>

\* a step in which a cancelTask call returned true: the id was in the
\* registry, its entry is removed and the timer of the entry is not armed
\* any more
AcceptedCancelStep ==
    /\ refusedCancels' = refusedCancels
    /\ \A e \in cancelLog' \ cancelLog :
         /\ e.taskId \in DOMAIN tasks
         /\ tasks[e.taskId].timeout = e.entry
         /\ e.taskId \notin DOMAIN tasks'
         /\ timers[e.entry].st = "armed" => timers'[e.entry].st = "cleared"
         /\ timers'[e.entry].st # "armed"

\* C27: cancelTask(id) returns false and changes nothing when id is not in
\* the registry, which is the case right after a cancelTask(id) that
\* returned true and after the execution of the task ended; when it
\* returns true the entry is removed and its timer cleared.
C27_CancelUnknownIsRefused ==
    [][/\ refusedCancels' # refusedCancels => RefusedCancelStep
       /\ cancelLog' # cancelLog => AcceptedCancelStep]_vars

\* C27 witness: a second cancelTask of a cancelled task returned false, and
\* so did a cancelTask of a task that fired and whose execution ended
C27_Witness ==
    /\ \E r \in refusedCancels :
         /\ r.last = "cleared"
         /\ \E e \in cancelLog : e.entry = r.entry /\ e.taskId = r.taskId
    /\ \E r \in refusedCancels :
         /\ r.last = "fired"
         /\ \E d \in delivered : d.entry = r.entry
         /\ ~\E c \in calls : c.entry = r.entry
         /\ ~InRegistry(r.entry)

(***************************************************************************)
(* Properties of detectSkill                                               *)
(***************************************************************************)

\* the "Delai: ..." fragments of a text, whatever follows the colon
DelayFields(text) == {i \in DOMAIN text : text[i].t = "field" /\ text[i].k = "Delai"}

\* a call of CronSkill.detectSkill that returned, on a text with the cron
\* tag, a prompt and exactly one delay that starts with a digit: what the
\* call returns depends on that delay alone
CronDelayProbe ==
    /\ probe.called
    /\ probe.skillName = "cron"
    /\ Has(probe.text, {Tag("cron")})
    /\ Has(probe.text, FieldTokens("Prompt"))
    /\ Cardinality(DelayFields(probe.text)) = 1
    /\ \A i \in DelayFields(probe.text) : probe.text[i].n[1] # <<>>

\* the one delay of such a text
TheDelay == probe.text[CHOOSE i \in DelayFields(probe.text) : TRUE]

\* C28: cron delay parsing converts '<N>s' to N seconds, '<N>m' to 60*N
\* seconds and '<N>h' to 3600*N seconds (30s -> 30, 5m -> 300, 2h -> 7200),
\* for every non-negative integer N, and a delay with any other unit suffix
\* (e.g. '5x') makes CronSkill.detectSkill return not detected.
C28_DelayParsing ==
    CronDelayProbe =>
        LET digits == TheDelay.n[1]
            suffix == TheDelay.n[2]
            result == probe.result
        IN /\ suffix = <<"s">> =>
                result.isDetected /\ result.data.delaySeconds = ParseInt(digits)
           /\ suffix = <<"m">> =>
                result.isDetected /\ result.data.delaySeconds = 60 * ParseInt(digits)
           /\ suffix = <<"h">> =>
                result.isDetected /\ result.data.delaySeconds = 3600 * ParseInt(digits)
           /\ TheDelay = Delai(<<3, 0>>, <<"s">>) => result.data.delaySeconds = 30
           /\ TheDelay = Delai(<<5>>, <<"m">>) => result.data.delaySeconds = 300
           /\ TheDelay = Delai(<<2>>, <<"h">>) => result.data.delaySeconds = 7200
           /\ (suffix = <<>> \/ Len(suffix) > 1 \/ suffix = <<"x">>) =>
                ~result.isDetected

\* a fragment is a field of the key k written as the annotation format
\* wants it: a delay is digits and one of the units s, m, h; a list of
\* numbers has items and each is a number; an operation is one of the
\* four; any other value is not empty
WellFormed(k, tok) ==
    /\ tok.t = "field"
    /\ tok.k = k
    /\ CASE k = "Delai" ->
              /\ tok.n[1] # <<>>
              /\ Len(tok.n[2]) = 1
              /\ ToLowerCase(tok.n[2][1]) \in {"s", "m", "h"}
         [] k = "Numbers" ->
              /\ tok.n[1] # <<>>
              /\ \A i \in DOMAIN tok.n[1] : tok.n[1][i] \in {"1", "2"}
         [] k = "Operation" ->
              ToLowerCase(tok.v) \in {"add", "subtract", "multiply", "divide"}
         [] OTHER -> tok.v # ""

\* the text has a well-formed field of the key k
HasField(text, k) == \E i \in DOMAIN text : WellFormed(k, text[i])

\* the text has every field the skill requires: cron a prompt and a delay,
\* web_search a query, system_info none (Type is optional), gmail an
\* expression, calculator an expression or an operation with its numbers
HasRequiredFields(name, text) ==
    CASE name = "cron" -> HasField(text, "Prompt") /\ HasField(text, "Delai")
      [] name = "web_search" -> HasField(text, "Query")
      [] name = "system_info" -> TRUE
      [] name = "GMail" -> HasField(text, "Expression")
      [] name = "calculator" ->
           \/ HasField(text, "Expression")
           \/ HasField(text, "Operation") /\ HasField(text, "Numbers")

\* the tag of the skill is in the text, but not all it requires
PartialMatch(name, text) ==
    Has(text, {Tag(TagOf(name))}) /\ ~HasRequiredFields(name, text)

\* C29: for every registered skill, detectSkill never throws, and on a
\* partial match (the tag of the skill is present but a required field is
\* missing or malformed) it returns not detected, so that the skill is not
\* executed.
C29_PartialMatchIsNotDetected ==
    (probe.called /\ PartialMatch(probe.skillName, probe.text)) =>
        ~probe.result.isDetected

(***************************************************************************)
(* Properties of the task ids                                              *)
(***************************************************************************)

\* C30: task ids are unique per process. No two scheduleTask calls ever
\* return the same id, so scheduling a task never overwrites the registry
\* entry of another live task: the entry of every timer still armed is in
\* the registry.
C30_TaskIdsUnique ==
    /\ \A h1, h2 \in DOMAIN timers :
         h1 # h2 => timers[h1].taskId # timers[h2].taskId
    /\ \A h \in DOMAIN timers : timers[h].st = "armed" => InRegistry(h)

(***************************************************************************)
(* Properties of a cron segment chained with further skills                *)
(***************************************************************************)

\* the run is a processSkillDetection call that detected the skill name
DetectedAtMessageTime(name) ==
    /\ run.mode = "combine"
    /\ \E k \in DOMAIN run.detected : run.detected[k].skillName = name

\* C31: when the annotation of an interactive message contains a cron
\* segment chained with further skills, handling the message only schedules
\* the task: no skill other than cron is executed at message time.
C31_ChainedCronOnlySchedules ==
    DetectedAtMessageTime("cron") =>
        \A k \in DOMAIN run.execLog : run.execLog[k] = "cron"

(***************************************************************************)
(* Properties of the sender filter                                         *)
(***************************************************************************)

\* Number.toString of the sender ids, as digit values
DecimalDigits(id) == CASE id = 42 -> <<4, 2>> [] id = 7 -> <<7>>

\* the pipeline ran for update m: its handler went past the filter, or a
\* reply was made for it
Triggered(m) ==
    \/ flows[m].pc # "ignored"
    \/ \E k \in DOMAIN sent : sent[k].msg = m

OverWithResult(m) ==
    /\ flows[m].pc = "done"
    /\ flows[m].branch \notin {"", "plain"}

\* C33: the interactive handler never finishes silently after running
\* skills. For every handled message for which processSkillDetection
\* returned a result, one skill or a composite, the handler sent a final
\* reply after the detection echo, an answer or an error message; also for
\* a composite in which some skills failed and for a successful result
\* that requires no response.
C33_NeverSilentAfterSkills ==
    \A m \in DOMAIN flows :
        OverWithResult(m) =>
            \E k \in DOMAIN sent : sent[k].msg = m /\ sent[k].kind # "detection"

(***************************************************************************)
(* Properties of CronSkill.execute                                         *)
(***************************************************************************)

\* C34: a reported cron failure leaves no reminder behind. Whenever
\* CronSkill.execute returned success = false, no task created by that call
\* remains in the scheduled-task registry and no timer of it is armed, so
\* nothing fires later for a request the user was told had failed.
C34_FailedCronLeavesNoTask ==
    \A k \in DOMAIN cronExecs :
        (cronExecs[k].pc = "returned" /\ ~cronExecs[k].success /\ cronExecs[k].timer # 0) =>
            /\ ~InRegistry(cronExecs[k].timer)
            /\ timers[cronExecs[k].timer].st # "armed"

(***************************************************************************)
(* Properties of the completion callback                                   *)
(***************************************************************************)

\* the onTaskComplete invocations made for the firing f
Completions(f) == {d \in delivered : d.entry = f.entry /\ d.n = f.n}

\* C35: for each fired task the completion callback onTaskComplete is
\* invoked exactly once, with the generated answer or with the fixed
\* failure message, never with both and never twice, also when the
\* callback itself fails on the success path: never more than once, and
\* once when the execution is over.
C35_CallbackExactlyOnce ==
    \A f \in fireLog :
        /\ Cardinality(Completions(f)) <= 1
        /\ (~\E c \in calls : c.entry = f.entry /\ c.n = f.n) =>
              Cardinality(Completions(f)) = 1
(***************************************************************************)
(* Properties of the shared browser                                        *)
(***************************************************************************)

\* C36: under concurrent searches initBrowser launches at most one browser
\* (none is ever closed here), and every launched browser is the one
\* this.browser refers to: no launched browser is left unreferenced
C36_SingleSharedBrowser ==
    /\ Cardinality(engine.launched) <= 1
    /\ \A b \in engine.launched : engine.browser = b

(***************************************************************************)
(* Properties of performIterativeSearch                                    *)
(***************************************************************************)

\* the k-th visited site gave enough content and its analysis is relevant,
\* carries extracted information and has a confidence of at least
\* minConfidence
Qualifies(k) ==
    /\ web.visited[k].content = "long"
    /\ web.visited[k].analysis.isRelevant
    /\ web.visited[k].analysis.extractedInfo # <<>>
    /\ ConfidenceLevels[web.visited[k].analysis.confidence] >= ConfidenceLevels[web.config.minConfidence]

\* performIterativeSearch returned its WebSearchResult
ReturnedNormally == web.result.settled = "returned"

\* C37: performIterativeSearch visits the results one at a time in their
\* order, at most maxSites of them, and stops at the first visited site
\* that qualifies; on every normal return the number of sources equals
\* sitesVisited and is at most maxSites, and foundReliableAnswer is true
\* exactly when the loop stopped on a qualifying site (otherwise every site
\* to visit was visited and none qualified)
C37_IterativeSearchStopsAtFirstReliable ==
    /\ Len(web.visited) <= web.config.maxSites
    /\ \A k \in DOMAIN web.visited : web.visited[k].site = k
    /\ \A k \in DOMAIN web.visited : Qualifies(k) => k = Len(web.visited) /\ web.pc # "loop"
    /\ ReturnedNormally =>
         /\ Len(web.result.sources) = web.result.sitesVisited
         /\ web.result.sitesVisited = Len(web.visited)
         /\ web.result.sitesVisited <= web.config.maxSites
         /\ web.result.foundReliableAnswer <=> (\E k \in DOMAIN web.visited : Qualifies(k))
         /\ ~web.result.foundReliableAnswer =>
              \/ web.result.sitesVisited = web.config.maxSites
              \/ web.result.sitesVisited = web.searchResults

\* a normal return with a reliable answer found at the second site, after a
\* first site that was relevant with extracted information of too low a
\* confidence, and with more results than maxSites
C37_Witness ==
    /\ ReturnedNormally
    /\ web.result.foundReliableAnswer
    /\ web.result.sitesVisited = 2
    /\ web.searchResults > web.config.maxSites
    /\ web.visited[1].analysis.isRelevant
    /\ web.visited[1].analysis.extractedInfo # <<>>
    /\ ~Qualifies(1)
    /\ Qualifies(2)

(***************************************************************************)
(* Properties of performWebSearch                                          *)
(***************************************************************************)

\* C38: performWebSearch never rejects: whatever fails inside it (the
\* initial search, the iterative search, the conversational call of the
\* no-result fallback or of the error response), its promise resolves with
\* a WebSearchResponse that carries the query and a summary
C38_PerformWebSearchNeverRejects ==
    /\ web.pc # "rejected"
    /\ web.pc = "resolved" => web.response.query = "q" /\ web.response.summary # ""

====
